---- MODULE Spec2Model ----
(***************************************************************************)
(* A model of the to-do list application of src/app.js: the Task class,    *)
(* the TaskList store with its CRUD operations, the localStorage           *)
(* persistence (saveToStorage / loadFromStorage), the filter handling and  *)
(* the start-up sequence.                                                  *)
(*                                                                         *)
(* JavaScript values are modelled as tagged records (Undefined, Null,      *)
(* Bool, Num, Str, Arr, Obj); a JavaScript string is the sequence of its   *)
(* characters.  The text stored under the localStorage key 'todoApp' is    *)
(* either a raw character string that is not JSON, or JSONText(v), the     *)
(* JSON text whose parse tree is v.                                        *)
(***************************************************************************)
EXTENDS Integers, Sequences, FiniteSets, TLC

VARIABLES
    tasks,          \* todoApp.tasks: the store's ordered collection of Task objects
    currentFilter,  \* appState.currentFilter
    slot,           \* what localStorage.getItem('todoApp') returns
    storage,        \* the storage medium: "ok", "full" (setItem throws) or "unavailable"
    now,            \* the clock in milliseconds, as read by Date.now() / new Date()
    todoApp,        \* the global todoApp: "null" until DOMContentLoaded, then "TaskList"
    last,           \* the last call: operation, return value, save made, render made
    returned,       \* the array a caller got from getAllTasks() and still holds
    view,           \* the page: the items of #task-list, #task-count, the filter buttons
    message,        \* the .user-message element showMessage put on the page, if any
    userMessages,   \* the .user-message elements of <main>, in document order
    timers,         \* the elements whose setTimeout callback has not run yet
    editingTaskId,  \* appState.editingTaskId
    otherTab,       \* a second tab on the same localStorage: its page and its script
    handlers,       \* whether setupEventHandlers has installed the handlers
    pc              \* the handler last started: the calls it has made, whether it still runs

vars == <<tasks, currentFilter, slot, storage, now, todoApp, last, returned,
          view, message, userMessages, timers, editingTaskId, otherTab, handlers, pc>>

(***************************************************************************)
(* Bounds of the model.                                                    *)
(***************************************************************************)
\* Tasks created by addTask while the collection holds fewer than this many.
MaxTasks == 2
\* The clock runs from 0 to MaxTime.
MaxTime == 1
\* showMessage is called while fewer than this many of its timers are pending.
MaxTimers == 2
\* An item gets an edit input while it has fewer than this many.
MaxInputs == 2

\* Task.isValidText: text.trim().length <= 500
MAX_TEXT_LENGTH == 500

(***************************************************************************)
(* JavaScript values.                                                      *)
(***************************************************************************)
Undefined == [kind |-> "undefined"]
Null == [kind |-> "null"]
Bool(b) == [kind |-> "boolean", bool |-> b]
Num(n) == [kind |-> "number", num |-> n]
Str(s) == [kind |-> "string", chars |-> s]
Arr(xs) == [kind |-> "array", items |-> xs]
Obj(fs) == [kind |-> "object", fields |-> fs]
\* The string that is the JSON text of the JSON value v.
JSONText(v) == [kind |-> "string", json |-> v]

\* typeof v
typeof(v) ==
    IF v.kind \in {"null", "array", "object"} THEN "object" ELSE v.kind

\* ToBoolean(v): what `if (v)`, `!v` and `v || w` test.
Truthy(v) ==
    CASE v.kind = "undefined" -> FALSE
      [] v.kind = "null" -> FALSE
      [] v.kind = "boolean" -> v.bool
      [] v.kind = "number" -> v.num # 0
      [] v.kind = "string" -> IF "chars" \in DOMAIN v THEN v.chars # <<>> ELSE TRUE
      [] OTHER -> TRUE

\* v.name for a v that is neither null nor undefined: a missing property, or any
\* property of a primitive or an array asked for here, reads as undefined.
Get(v, name) ==
    IF v.kind = "object" /\ name \in DOMAIN v.fields THEN v.fields[name] ELSE Undefined

\* Array.isArray(v)
isArray(v) == v.kind = "array"

(***************************************************************************)
(* Strings.                                                                *)
(***************************************************************************)
WhiteSpace == {" ", "\t", "\n"}

RECURSIVE trimStart(_)
trimStart(s) ==
    IF s # <<>> /\ Head(s) \in WhiteSpace THEN trimStart(Tail(s)) ELSE s

RECURSIVE trimEnd(_)
trimEnd(s) ==
    IF s # <<>> /\ s[Len(s)] \in WhiteSpace THEN trimEnd(SubSeq(s, 1, Len(s) - 1)) ELSE s

\* String.prototype.trim, on the characters of a string
trim(s) == trimEnd(trimStart(s))

Digits == <<"0", "1", "2", "3", "4", "5", "6", "7", "8", "9">>

\* Number to decimal string, as in 'task_' + Date.now()
RECURSIVE decimal(_)
decimal(n) ==
    IF n < 10 THEN <<Digits[n + 1]>>
    ELSE decimal(n \div 10) \o <<Digits[(n % 10) + 1]>>

\* new Date().toISOString() for a clock reading within the first second of the epoch
toISOString(ms) ==
    Str(<<"1", "9", "7", "0", "-", "0", "1", "-", "0", "1", "T",
          "0", "0", ":", "0", "0", ":", "0", "0", ".">>
        \o <<Digits[((ms \div 100) % 10) + 1], Digits[((ms \div 10) % 10) + 1],
             Digits[(ms % 10) + 1]>>
        \o <<"Z">>)

\* n copies of the character c
Repeat(c, n) == [i \in 1..n |-> c]

(***************************************************************************)
(* Task.                                                                   *)
(***************************************************************************)
\* Variants of isValidText: one that rejects a text of the greatest length,
isValidText_exclusive(text) ==
    /\ typeof(text) = "string"
    /\ Len(trim(text.chars)) > 0
    /\ Len(trim(text.chars)) < MAX_TEXT_LENGTH

\* and one that does not look at the length.
isValidText_unbounded(text) ==
    /\ typeof(text) = "string"
    /\ Len(trim(text.chars)) > 0

\* Task.isValidText(text)
isValidText(text) ==
    /\ typeof(text) = "string"
    /\ Len(trim(text.chars)) > 0
    /\ Len(trim(text.chars)) <= MAX_TEXT_LENGTH

\* 'task_' + Date.now() + '_' + Math.random().toString(36).substr(2, 9),
\* rnd being the characters Math.random() contributes
taskId(ms, rnd) ==
    Str(<<"t", "a", "s", "k", "_">> \o decimal(ms) \o <<"_">> \o rnd)

(***************************************************************************)
(* The clock.  Every Date.now() and every new Date() reads it anew, and it *)
(* may advance between two readings of the same operation.  An operation   *)
(* that reads the clock is given the readings its successive calls return, *)
(* in the order in which it makes them.                                    *)
(***************************************************************************)
\* The readings n successive calls may return from now on: the clock never
\* goes back
Clock(n) ==
    { clock \in [1..n -> now..MaxTime] : \A i \in 1..(n - 1) : clock[i] <= clock[i + 1] }

\* The readings of n successive calls while the clock stands still
Standstill(n) == { [i \in 1..n |-> now] }

\* The readings left to an operation once n of them have been made
After(clock, n) == SubSeq(clock, n + 1, Len(clock))

\* The clock when an operation that was given the readings clock has returned
\* (no earlier than its last reading)
Later(clock) == IF clock = <<>> THEN now ELSE clock[Len(clock)]

\* new Task(text) for a valid text: Date.now() for the id, then new Date() for
\* createdAt and new Date() again for updatedAt
Task(text, rnd, clock) ==
    [id |-> taskId(clock[1], rnd),
     text |-> Str(trim(text.chars)),
     completed |-> Bool(FALSE),
     createdAt |-> toISOString(clock[2]),
     updatedAt |-> toISOString(clock[3])]

\* A variant of toggle that leaves updatedAt as it is
toggle_stale(task, clock) ==
    [task EXCEPT !.completed = Bool(~Truthy(task.completed))]

\* Task.prototype.toggle
toggle(task, clock) ==
    [task EXCEPT !.completed = Bool(~Truthy(task.completed)),
                 !.updatedAt = toISOString(clock[1])]

\* Task.prototype.updateText for a valid newText (it throws on any other)
updateText(task, newText, clock) ==
    [task EXCEPT !.text = Str(trim(newText.chars)),
                 !.updatedAt = toISOString(clock[1])]

\* Task.prototype.toObject
toObject(task) ==
    Obj([id |-> task.id,
         text |-> task.text,
         completed |-> task.completed,
         createdAt |-> task.createdAt,
         updatedAt |-> task.updatedAt])

\* A variant of fromObject that does not copy completed
fromObject_incomplete(obj) ==
    [id |-> Get(obj, "id"),
     text |-> Get(obj, "text"),
     completed |-> Bool(FALSE),
     createdAt |-> Get(obj, "createdAt"),
     updatedAt |-> Get(obj, "updatedAt")]

\* Task.fromObject(obj) for an obj that is neither null nor undefined
\* (reading a property of those throws a TypeError)
fromObject(obj) ==
    [id |-> Get(obj, "id"),
     text |-> Get(obj, "text"),
     completed |-> Get(obj, "completed"),
     createdAt |-> Get(obj, "createdAt"),
     updatedAt |-> Get(obj, "updatedAt")]

(***************************************************************************)
(* JSON.                                                                   *)
(***************************************************************************)
\* The JSON value JSON.stringify writes for v: a property whose value is
\* undefined is left out, an undefined array element is written as null.
RECURSIVE toJSON(_)
toJSON(v) ==
    CASE v.kind = "object" ->
            Obj([f \in {g \in DOMAIN v.fields : v.fields[g] # Undefined} |->
                    toJSON(v.fields[f])])
      [] v.kind = "array" ->
            Arr([i \in 1..Len(v.items) |->
                    IF v.items[i] = Undefined THEN Null ELSE toJSON(v.items[i])])
      [] OTHER -> v

\* JSON.stringify(v)
JSONstringify(v) == JSONText(toJSON(v))

\* JSON.parse(s): the value, or a SyntaxError
JSONparse(s) ==
    IF "json" \in DOMAIN s THEN [ok |-> TRUE, value |-> s.json]
    ELSE [ok |-> FALSE, value |-> Undefined]

(***************************************************************************)
(* The filter names.                                                       *)
(***************************************************************************)
FilterAll == Str(<<"a", "l", "l">>)
FilterActive == Str(<<"a", "c", "t", "i", "v", "e">>)
FilterCompleted == Str(<<"c", "o", "m", "p", "l", "e", "t", "e", "d">>)

(***************************************************************************)
(* TaskList.  Each operation is an operator giving what the call does to   *)
(* the store whose this.tasks is ts: the tasks and the slot afterwards,    *)
(* the value returned, what its saveToStorage call returned ("none" when   *)
(* it made none) and whether it called renderTasks.                        *)
(***************************************************************************)
\* TaskList.getAllTasks
getAllTasks(ts) == ts

\* A variant of getFilteredTasks that lists the newest task first
getFilteredTasks_newestFirst(ts, filter) ==
    LET kept == CASE filter = FilterActive ->
                        SelectSeq(ts, LAMBDA task : ~Truthy(task.completed))
                  [] filter = FilterCompleted ->
                        SelectSeq(ts, LAMBDA task : Truthy(task.completed))
                  [] OTHER -> ts
    IN  [i \in 1..Len(kept) |-> kept[Len(kept) + 1 - i]]

\* A variant of getFilteredTasks whose active tasks are those with completed === false
getFilteredTasks_strict(ts, filter) ==
    CASE filter = FilterActive -> SelectSeq(ts, LAMBDA task : task.completed = Bool(FALSE))
      [] filter = FilterCompleted -> SelectSeq(ts, LAMBDA task : Truthy(task.completed))
      [] OTHER -> ts

\* TaskList.getFilteredTasks(filter)
getFilteredTasks(ts, filter) ==
    CASE filter = FilterActive -> SelectSeq(ts, LAMBDA task : ~Truthy(task.completed))
      [] filter = FilterCompleted -> SelectSeq(ts, LAMBDA task : Truthy(task.completed))
      [] OTHER -> ts

\* The position of the task this.tasks.find(t => t.id === id) returns, 0 for none
find(ts, id) ==
    IF \E i \in 1..Len(ts) : ts[i].id = id
    THEN CHOOSE i \in 1..Len(ts) :
            /\ ts[i].id = id
            /\ \A j \in 1..(i - 1) : ts[j].id # id
    ELSE 0

\* A variant of dataToSave that leaves the settings out
dataToSave_tasksOnly(ts, filter, clock) ==
    Obj([tasks |-> Arr([i \in 1..Len(ts) |-> toObject(ts[i])]),
         version |-> Str(<<"1", ".", "0", ".", "0">>),
         lastSaved |-> toISOString(clock[1])])

\* A variant of dataToSave that keeps the stored tasks the store does not hold
dataToSave_merging(ts, filter, clock) ==
    LET record == JSONparse(slot).value
        stored == IF isArray(Get(record, "tasks")) THEN Get(record, "tasks").items ELSE <<>>
        others == SelectSeq(stored, LAMBDA o : \A i \in 1..Len(ts) : ts[i].id # Get(o, "id"))
    IN  Obj([tasks |-> Arr(others \o [i \in 1..Len(ts) |-> toObject(ts[i])]),
             version |-> Str(<<"1", ".", "0", ".", "0">>),
             lastSaved |-> toISOString(clock[1]),
             settings |-> Obj([currentFilter |-> filter])])

\* The record saveToStorage prepares, with new Date() for lastSaved
dataToSave(ts, filter, clock) ==
    Obj([tasks |-> Arr([i \in 1..Len(ts) |-> toObject(ts[i])]),
         version |-> Str(<<"1", ".", "0", ".", "0">>),
         lastSaved |-> toISOString(clock[1]),
         settings |-> Obj([currentFilter |-> filter])])

\* TaskList.saveToStorage with appState.currentFilter = filter:
\* the slot afterwards and the value returned
saveToStorage(ts, filter, clock) ==
    IF storage = "unavailable" THEN [slot |-> slot, result |-> FALSE]
    ELSE IF storage = "full" THEN [slot |-> slot, result |-> FALSE]
    ELSE [slot |-> JSONstringify(dataToSave(ts, filter, clock)), result |-> TRUE]

SaveStatus(saved) == IF saved.result THEN "ok" ELSE "failed"

\* A variant of loadFromStorage that, whenever it does not restore tasks from the
\* stored value, empties the store and removes the stored value
loadFromStorage_reset(ts, filter, storedData) ==
    LET parsed == JSONparse(storedData)
        settings == Get(parsed.value, "settings")
    IN  IF /\ storage # "unavailable"
           /\ Truthy(storedData)
           /\ parsed.ok
           /\ isArray(Get(parsed.value, "tasks"))
           /\ \A i \in 1..Len(Get(parsed.value, "tasks").items) :
                 Get(parsed.value, "tasks").items[i].kind = "object"
        THEN [tasks |-> [i \in 1..Len(Get(parsed.value, "tasks").items) |->
                            fromObject(Get(parsed.value, "tasks").items[i])],
              currentFilter |->
                  IF Truthy(Get(settings, "currentFilter"))
                  THEN Get(settings, "currentFilter") ELSE FilterAll,
              slot |-> storedData,
              result |-> TRUE,
              buttons |-> TRUE]
        ELSE [tasks |-> <<>>, currentFilter |-> filter, slot |-> Null, result |-> FALSE,
              buttons |-> FALSE]

\* A variant of loadFromStorage that puts the tasks into this.tasks one by one,
\* so that the elements before a malformed one have replaced the collection
\* when the load fails
loadFromStorage_partial(ts, filter, storedData) ==
    LET parsed == JSONparse(storedData)
        parsedData == parsed.value
        stored == Get(parsedData, "tasks").items
        settings == Get(parsedData, "settings")
        bad == { i \in 1..Len(stored) : stored[i].kind \in {"null", "undefined"} }
        first == CHOOSE i \in bad : \A j \in bad : i <= j
        kept(newSlot, result) ==
            [tasks |-> ts, currentFilter |-> filter, slot |-> newSlot, result |-> result,
             buttons |-> FALSE]
    IN  IF storage = "unavailable" THEN kept(storedData, FALSE)
        ELSE IF ~Truthy(storedData) THEN kept(storedData, TRUE)
        ELSE IF ~parsed.ok THEN kept(Null, FALSE)
        ELSE IF ~Truthy(parsedData) \/ ~isArray(Get(parsedData, "tasks"))
             THEN kept(storedData, FALSE)
        ELSE IF bad # {}
             THEN [tasks |-> [i \in 1..(first - 1) |-> fromObject(stored[i])],
                   currentFilter |-> filter, slot |-> storedData, result |-> FALSE,
                   buttons |-> FALSE]
        ELSE [tasks |-> [i \in 1..Len(stored) |-> fromObject(stored[i])],
              currentFilter |->
                  IF Truthy(settings)
                  THEN IF Truthy(Get(settings, "currentFilter"))
                       THEN Get(settings, "currentFilter") ELSE FilterAll
                  ELSE filter,
              slot |-> storedData,
              result |-> TRUE,
              buttons |-> Truthy(settings)]

\* TaskList.loadFromStorage with appState.currentFilter = filter and
\* localStorage.getItem('todoApp') = storedData: this.tasks, appState.currentFilter
\* and the slot afterwards, the value returned, and whether updateFilterButtons
\* was called
loadFromStorage(ts, filter, storedData) ==
    LET parsed == JSONparse(storedData)
        parsedData == parsed.value
        stored == Get(parsedData, "tasks").items
        settings == Get(parsedData, "settings")
        kept(newSlot, result) ==
            [tasks |-> ts, currentFilter |-> filter, slot |-> newSlot, result |-> result,
             buttons |-> FALSE]
    IN  IF storage = "unavailable" THEN kept(storedData, FALSE)
        ELSE IF ~Truthy(storedData) THEN kept(storedData, TRUE)
        ELSE IF ~parsed.ok THEN kept(Null, FALSE)
        ELSE IF ~Truthy(parsedData) \/ ~isArray(Get(parsedData, "tasks"))
             THEN kept(storedData, FALSE)
        ELSE IF \E i \in 1..Len(stored) : stored[i].kind \in {"null", "undefined"}
             THEN kept(storedData, FALSE)
        ELSE [tasks |-> [i \in 1..Len(stored) |-> fromObject(stored[i])],
              currentFilter |->
                  IF Truthy(settings)
                  THEN IF Truthy(Get(settings, "currentFilter"))
                       THEN Get(settings, "currentFilter") ELSE FilterAll
                  ELSE filter,
              slot |-> storedData,
              result |-> TRUE,
              buttons |-> Truthy(settings)]

\* A variant of addTask that takes the task back when the save fails
addTask_transactional(ts, text, rnd, clock) ==
    IF \/ ~isValidText(text)
       \/ ~saveToStorage(Append(ts, Task(text, rnd, clock)), currentFilter,
                         After(clock, 3)).result
    THEN [tasks |-> ts, slot |-> slot, result |-> Null, save |-> "none", render |-> FALSE]
    ELSE [tasks |-> Append(ts, Task(text, rnd, clock)),
          slot |-> saveToStorage(Append(ts, Task(text, rnd, clock)), currentFilter,
                                 After(clock, 3)).slot,
          result |-> Task(text, rnd, clock), save |-> "ok", render |-> TRUE]

\* TaskList.addTask(text), rnd being what Math.random() contributes to the id:
\* the constructor reads the clock three times, saveToStorage a fourth time
addTask(ts, text, rnd, clock) ==
    IF ~isValidText(text)
    THEN [tasks |-> ts, slot |-> slot, result |-> Null, save |-> "none", render |-> FALSE]
    ELSE LET task == Task(text, rnd, clock)
             saved == saveToStorage(Append(ts, task), currentFilter, After(clock, 3))
         IN  [tasks |-> Append(ts, task), slot |-> saved.slot, result |-> task,
              save |-> SaveStatus(saved), render |-> TRUE]

\* A variant of deleteTask that saves and renders whether or not it removed a task
deleteTask_eager(ts, id, clock) ==
    LET filtered == SelectSeq(ts, LAMBDA task : task.id # id)
        saved == saveToStorage(filtered, currentFilter, clock)
    IN  [tasks |-> filtered, slot |-> saved.slot, result |-> Bool(Len(filtered) < Len(ts)),
         save |-> SaveStatus(saved), render |-> TRUE]

\* TaskList.deleteTask(id): the clock is read by the save, if one is made
deleteTask(ts, id, clock) ==
    LET filtered == SelectSeq(ts, LAMBDA task : task.id # id)
        deleted == Len(filtered) < Len(ts)
        saved == saveToStorage(filtered, currentFilter, clock)
    IN  IF deleted
        THEN [tasks |-> filtered, slot |-> saved.slot, result |-> Bool(TRUE),
              save |-> SaveStatus(saved), render |-> TRUE]
        ELSE [tasks |-> filtered, slot |-> slot, result |-> Bool(FALSE),
              save |-> "none", render |-> FALSE]

\* A variant of toggleTask that saves and renders also when it finds no task
toggleTask_eager(ts, id, clock) ==
    LET i == find(ts, id)
        toggled == IF i = 0 THEN ts ELSE [ts EXCEPT ![i] = toggle(ts[i], clock)]
        saved == saveToStorage(toggled, currentFilter, After(clock, 1))
    IN  [tasks |-> toggled, slot |-> saved.slot,
         result |-> IF i = 0 THEN Null ELSE toggled[i],
         save |-> SaveStatus(saved), render |-> TRUE]

\* TaskList.toggleTask(id): toggle reads the clock, then saveToStorage does
toggleTask(ts, id, clock) ==
    LET i == find(ts, id)
        toggled == [ts EXCEPT ![i] = toggle(ts[i], clock)]
        saved == saveToStorage(toggled, currentFilter, After(clock, 1))
    IN  IF i = 0
        THEN [tasks |-> ts, slot |-> slot, result |-> Null, save |-> "none", render |-> FALSE]
        ELSE [tasks |-> toggled, slot |-> saved.slot, result |-> toggled[i],
              save |-> SaveStatus(saved), render |-> TRUE]

\* A variant of editTask that saves and renders after the edit, within the
\* millisecond of the edit
editTask_saving(ts, id, newText, clock) ==
    LET i == find(ts, id)
        edited == [ts EXCEPT ![i] = updateText(ts[i], newText, clock)]
        saved == saveToStorage(edited, currentFilter, clock)
    IN  IF i = 0 \/ ~isValidText(newText)
        THEN [tasks |-> ts, slot |-> slot, result |-> Null, save |-> "none", render |-> FALSE]
        ELSE [tasks |-> edited, slot |-> saved.slot, result |-> edited[i],
              save |-> SaveStatus(saved), render |-> TRUE]

\* A variant of editTask that takes every string as the new text
editTask_unchecked(ts, id, newText, clock) ==
    LET i == find(ts, id)
        edited == [ts EXCEPT ![i] = updateText(ts[i], newText, clock)]
    IN  IF i = 0 \/ typeof(newText) # "string"
        THEN [tasks |-> ts, slot |-> slot, result |-> Null, save |-> "none", render |-> FALSE]
        ELSE [tasks |-> edited, slot |-> slot, result |-> edited[i],
              save |-> "none", render |-> FALSE]

\* TaskList.editTask(id, newText): updateText reads the clock
editTask(ts, id, newText, clock) ==
    LET i == find(ts, id)
        edited == [ts EXCEPT ![i] = updateText(ts[i], newText, clock)]
    IN  IF i = 0 \/ ~isValidText(newText)
        THEN [tasks |-> ts, slot |-> slot, result |-> Null, save |-> "none", render |-> FALSE]
        ELSE [tasks |-> edited, slot |-> slot, result |-> edited[i],
              save |-> "none", render |-> FALSE]

\* completedTasks.forEach(task => todoApp.deleteTask(task.id)): the collection
\* after the calls, the stored value after the last save made, and the numbers
\* of saves and of renders the calls made.  Each call that removes a task reads
\* the clock once, in its save.
RECURSIVE forEachDelete(_, _, _)
forEachDelete(ts, completedTasks, clock) ==
    IF completedTasks = <<>>
    THEN [tasks |-> ts, slot |-> slot, saves |-> 0, saved |-> 0, renders |-> 0]
    ELSE LET done == deleteTask(ts, Head(completedTasks).id, clock)
             rest == forEachDelete(done.tasks, Tail(completedTasks),
                                   IF done.render THEN After(clock, 1) ELSE clock)
         IN  [tasks |-> rest.tasks,
              slot |-> IF rest.saves > 0 THEN rest.slot
                       ELSE IF done.save # "none" THEN done.slot ELSE slot,
              saves |-> rest.saves + (IF done.save # "none" THEN 1 ELSE 0),
              saved |-> rest.saved + (IF done.save = "ok" THEN 1 ELSE 0),
              renders |-> rest.renders + (IF done.render THEN 1 ELSE 0)]

\* handleClearCompleted(), confirmed being what confirm() returns
handleClearCompleted(ts, confirmed, clock) ==
    LET completedTasks == SelectSeq(ts, LAMBDA task : Truthy(task.completed))
    IN  IF Len(completedTasks) = 0 \/ ~confirmed
        THEN [tasks |-> ts, slot |-> slot, saves |-> 0, saved |-> 0, renders |-> 0]
        ELSE forEachDelete(ts, completedTasks, clock)

(***************************************************************************)
(* The page.  view.items are the task items of #task-list in document      *)
(* order, view.empty the text of the empty-state item (the empty string    *)
(* when there is none), view.counter the text of #task-count cut into its  *)
(* numbers and the words between them, view.buttons the filter buttons     *)
(* that carry the class 'active'.                                          *)
(***************************************************************************)
\* A piece of literal text of a string; the numbers put into it are Num pieces
Lit(text) == [kind |-> "literal", text |-> text]

\* TaskList.createTaskElement(task): the item shows the task's id, whether it is
\* completed and its text, with the edit and delete buttons; it has no edit
\* input yet (inputs counts them)
createTaskElement(task) ==
    [id |-> task.id, checked |-> Truthy(task.completed), text |-> task.text,
     editing |-> FALSE, inputs |-> 0]

\* TaskList.getEmptyMessage(): the texts as this copy of the source spells them,
\* the first one with the four characters that follow its space
getEmptyMessage(filter) ==
    CASE filter = FilterActive -> "No active tasks! üéâ"
      [] filter = FilterCompleted -> "No completed tasks yet."
      [] OTHER -> "No tasks yet. Add one above!"

\* TaskList.updateTaskCounter(): the text put into #task-count
updateTaskCounter(ts, filter) ==
    LET totalTasks == Len(ts)
        activeTasks == Len(SelectSeq(ts, LAMBDA t : ~Truthy(t.completed)))
        completedTasks == totalTasks - activeTasks
    IN  CASE filter = FilterActive ->
                <<Num(activeTasks),
                  Lit(IF activeTasks = 1 THEN " active task" ELSE " active tasks")>>
                \o (IF totalTasks > activeTasks
                    THEN <<Lit(" ("), Num(completedTasks), Lit(" completed)")>>
                    ELSE <<>>)
          [] filter = FilterCompleted ->
                <<Num(completedTasks),
                  Lit(IF completedTasks = 1 THEN " completed task" ELSE " completed tasks")>>
                \o (IF activeTasks > 0
                    THEN <<Lit(" ("), Num(activeTasks), Lit(" remaining)")>>
                    ELSE <<>>)
          [] OTHER ->
                (IF totalTasks = 0 THEN <<Lit("No tasks yet")>>
                 ELSE <<Num(totalTasks), Lit(IF totalTasks = 1 THEN " task" ELSE " tasks")>>)
                \o (IF activeTasks > 0 /\ completedTasks > 0
                    THEN <<Lit(" ("), Num(activeTasks), Lit(" active, "),
                           Num(completedTasks), Lit(" completed)")>>
                    ELSE IF completedTasks > 0 THEN <<Lit(" (all completed)")>>
                    ELSE <<>>)

\* A variant of renderTasks that shows every task whatever the filter is
renderTasks_unfiltered(ts, filter, page) ==
    [page EXCEPT !.items = [i \in 1..Len(ts) |-> createTaskElement(ts[i])],
                 !.empty = IF Len(ts) = 0 THEN getEmptyMessage(filter) ELSE "",
                 !.counter = updateTaskCounter(ts, filter)]

\* TaskList.renderTasks() on the page page
renderTasks(ts, filter, page) ==
    LET filteredTasks == getFilteredTasks(ts, filter)
    IN  [page EXCEPT !.items = [i \in 1..Len(filteredTasks) |->
                                  createTaskElement(filteredTasks[i])],
                     !.empty = IF Len(filteredTasks) = 0
                               THEN getEmptyMessage(filter) ELSE "",
                     !.counter = updateTaskCounter(ts, filter)]

\* TaskList.updateFilterButtons() on the page page
updateFilterButtons(filter, page) ==
    [page EXCEPT !.buttons = { button \in {FilterAll, FilterActive, FilterCompleted} :
                                 button = filter }]

\* The page as the browser builds it from the markup, before any script ran:
\* no task item, an empty counter, the button of the initial filter active
Markup ==
    [items |-> <<>>, empty |-> "", counter |-> <<>>, buttons |-> {FilterAll}]

\* No .user-message element on the page
NoMessage == [type |-> "none"]

\* TaskList.showMessage(text, type): the .user-message element on the page
showMessage(text, type) == [type |-> type, text |-> text]

\* document.querySelector('.user-message') on a page whose <main> holds the
\* elements ums: the first of them, as the user sees it
firstMessage(ums) ==
    IF ums = <<>> THEN NoMessage ELSE showMessage(Head(ums).text, Head(ums).type)

\* document.createElement('div') in showMessage: the new element is told from
\* the elements on the page and from those a pending timer still holds
createElement(ums, tms) ==
    CHOOSE n \in 1..(MaxTimers + Len(ums) + 1) :
        /\ n \notin tms \cup { ums[i].serial : i \in 1..Len(ums) }
        /\ \A m \in 1..(n - 1) : m \in tms \cup { ums[i].serial : i \in 1..Len(ums) }

\* TaskList.showMessage(text, type) on a page whose <main> holds the elements
\* ums, while the timers of the elements tms are pending: the existing message
\* (the first one) is removed, the new element becomes the first child of
\* <main>, and a timer is set for it
showMessageOn(ums, tms, text, type) ==
    LET messageElement ==
            [serial |-> createElement(ums, tms), type |-> type, text |-> text]
    IN  [userMessages |-> <<messageElement>> \o (IF ums # <<>> THEN Tail(ums) ELSE <<>>),
         timers |-> tms \cup {messageElement.serial}]

\* A variant of the timer's callback that removes the message the page shows
\* when it runs, whichever it is
timerCallback_first(ums, messageElement) ==
    IF ums # <<>> THEN Tail(ums) ELSE ums

\* The callback showMessage gave to setTimeout, for the element messageElement:
\* if (messageElement.parentNode) messageElement.remove()
timerCallback(ums, messageElement) ==
    SelectSeq(ums, LAMBDA m : m.serial # messageElement)

(***************************************************************************)
(* The inputs the operations are called with.                              *)
(***************************************************************************)
ShortText == <<"a", " ", "b">>

\* Texts given to addTask and editTask: two valid ones, with white space around
\* them (the second of the longest valid length once trimmed), and invalid
\* ones: empty, white space only, too long, not a string.
TextArgs ==
    { Str(<<" ">> \o ShortText \o <<"\n">>),
      Str(<<"\t">> \o Repeat("x", MAX_TEXT_LENGTH) \o <<" ">>),
      Str(<<>>),
      Str(<<" ", "\t", "\n">>),
      Str(Repeat("x", MAX_TEXT_LENGTH + 1)),
      Num(42),
      Undefined }

\* The texts among them that the steps of the state machine are taken with: the
\* store then holds short texts only.  The properties are stated on the
\* operations, for every text of TextArgs, in every state reached.
StepTextArgs ==
    { Str(<<" ">> \o ShortText \o <<"\n">>),
      Str(<<" ", "\t", "\n">>),
      Str(Repeat("x", MAX_TEXT_LENGTH + 1)),
      Undefined }

\* What Math.random().toString(36).substr(2, 9) may contribute to an id
FirstSuffix == <<"k">>
RandomSuffixes == { FirstSuffix, <<"z">> }

\* An id no task has ('invalid_id_12345' in the tests)
InvalidId ==
    Str(<<"i", "n", "v", "a", "l", "i", "d", "_", "i", "d", "_", "1", "2", "3", "4", "5">>)

\* The id of the tasks of LegacyRecord
OldId == Str(<<"o", "l", "d">>)

\* The ids the operations are called with: those of the tasks of ts, and two
\* that ts may not hold
IdArgs(ts) == { ts[i].id : i \in 1..Len(ts) } \cup { InvalidId, OldId }

\* The filters getFilteredTasks is called with: the three names, an unknown
\* name, the empty name and none
FilterArgs ==
    { FilterAll, FilterActive, FilterCompleted,
      Str(<<"b", "o", "g", "u", "s">>), Str(<<>>), Undefined }

\* The data-filter attributes of the three filter buttons
FilterButtons == { FilterAll, FilterActive, FilterCompleted }

\* Values another writer of the slot (another script, an earlier version of the
\* application, the user) may leave under the key 'todoApp':
\* a text that is not JSON,
NotJSON ==
    Str(<<"i", "n", "v", "a", "l", "i", "d", " ", "j", "s", "o", "n", " ",
          "d", "a", "t", "a">>)
\* the empty string,
EmptyString == Str(<<>>)
\* a record whose tasks is not a list,
TasksNotList == JSONText(Obj([tasks |-> Str(<<"o", "o", "p", "s">>)]))
\* a record with a null element in tasks,
NullElement == JSONText(Obj([tasks |-> Arr(<<Null>>)]))
\* a record with no task and an empty filter name,
EmptyRecord ==
    JSONText(Obj([tasks |-> Arr(<<>>), settings |-> Obj([currentFilter |-> Str(<<>>)])]))
\* a record with an unknown filter name and two tasks of the same id, the first
\* with only an id and a blank text.
LegacyRecord ==
    JSONText(Obj([tasks |-> Arr(<<
                     Obj([id |-> OldId, text |-> Str(<<" ">>)]),
                     Obj([id |-> OldId, text |-> Str(<<"q">>), completed |-> Bool(TRUE),
                          createdAt |-> toISOString(0), updatedAt |-> toISOString(0)])>>),
                  settings |-> Obj([currentFilter |-> Str(<<"b", "o", "g", "u", "s">>)])]))

StoredSamples ==
    { NotJSON, EmptyString, TasksNotList, NullElement, EmptyRecord, LegacyRecord }

\* What is written under the key while the page is open
\* (localStorage.setItem('todoApp', 'invalid json data') in the persistence test)
TestSamples == { NotJSON }

(***************************************************************************)
(* The actions.  Each records in `last` the operation called, the value it *)
(* returned, what its saveToStorage call returned and whether it rendered. *)
(***************************************************************************)
Call(op, result, save, render) ==
    [op |-> op, result |-> result, save |-> save, render |-> render]

\* todoApp.addTask(text), the clock giving the readings clock meanwhile and
\* Math.random any of the suffixes
AddTask(text, clock) ==
    /\ todoApp = "TaskList"
    /\ isValidText(text) => Len(tasks) < MaxTasks
    /\ \E rnd \in RandomSuffixes :
         /\ LET done == addTask(tasks, text, rnd, clock)
            IN  /\ tasks' = done.tasks
                /\ slot' = done.slot
                /\ last' = Call("addTask", done.result, done.save, done.render)
                /\ view' = IF done.render THEN renderTasks(done.tasks, currentFilter, view)
                           ELSE view
    /\ now' = Later(clock)
    /\ UNCHANGED <<currentFilter, storage, todoApp, returned>>
    /\ UNCHANGED <<message, userMessages, timers, editingTaskId, otherTab>>
    /\ UNCHANGED <<handlers, pc>>

\* todoApp.deleteTask(id)
DeleteTask(id, clock) ==
    /\ todoApp = "TaskList"
    /\ LET done == deleteTask(tasks, id, clock)
       IN  /\ tasks' = done.tasks
           /\ slot' = done.slot
           /\ last' = Call("deleteTask", done.result, done.save, done.render)
           /\ view' = IF done.render THEN renderTasks(done.tasks, currentFilter, view)
                      ELSE view
    /\ now' = Later(clock)
    /\ UNCHANGED <<currentFilter, storage, todoApp, returned>>
    /\ UNCHANGED <<message, userMessages, timers, editingTaskId, otherTab>>
    /\ UNCHANGED <<handlers, pc>>

\* todoApp.toggleTask(id)
ToggleTask(id, clock) ==
    /\ todoApp = "TaskList"
    /\ LET done == toggleTask(tasks, id, clock)
       IN  /\ tasks' = done.tasks
           /\ slot' = done.slot
           /\ last' = Call("toggleTask", done.result, done.save, done.render)
           /\ view' = IF done.render THEN renderTasks(done.tasks, currentFilter, view)
                      ELSE view
    /\ now' = Later(clock)
    /\ UNCHANGED <<currentFilter, storage, todoApp, returned>>
    /\ UNCHANGED <<message, userMessages, timers, editingTaskId, otherTab>>
    /\ UNCHANGED <<handlers, pc>>

\* todoApp.editTask(id, newText)
EditTask(id, newText, clock) ==
    /\ todoApp = "TaskList"
    /\ LET done == editTask(tasks, id, newText, clock)
       IN  /\ tasks' = done.tasks
           /\ slot' = done.slot
           /\ last' = Call("editTask", done.result, done.save, done.render)
           /\ view' = IF done.render THEN renderTasks(done.tasks, currentFilter, view)
                      ELSE view
    /\ now' = Later(clock)
    /\ UNCHANGED <<currentFilter, storage, todoApp, returned>>
    /\ UNCHANGED <<message, userMessages, timers, editingTaskId, otherTab>>
    /\ UNCHANGED <<handlers, pc>>

\* todoApp.saveToStorage()
SaveToStorage(clock) ==
    /\ todoApp = "TaskList"
    /\ LET saved == saveToStorage(tasks, currentFilter, clock)
       IN  /\ slot' = saved.slot
           /\ last' = Call("saveToStorage", Bool(saved.result), SaveStatus(saved), FALSE)
    /\ now' = Later(clock)
    /\ UNCHANGED <<tasks, currentFilter, storage, todoApp, returned>>
    /\ UNCHANGED <<view, message, userMessages, timers, editingTaskId, otherTab>>
    /\ UNCHANGED <<handlers, pc>>

\* todoApp.loadFromStorage() on the running store
LoadFromStorage ==
    /\ todoApp = "TaskList"
    /\ LET loaded == loadFromStorage(tasks, currentFilter, slot)
       IN  /\ tasks' = loaded.tasks
           /\ currentFilter' = loaded.currentFilter
           /\ slot' = loaded.slot
           /\ last' = Call("loadFromStorage", Bool(loaded.result), "none", FALSE)
           /\ view' = IF loaded.buttons
                      THEN updateFilterButtons(loaded.currentFilter, view) ELSE view
    /\ UNCHANGED <<storage, now, todoApp, returned>>
    /\ UNCHANGED <<message, userMessages, timers, editingTaskId, otherTab>>
    /\ UNCHANGED <<handlers, pc>>

\* The page is loaded (again): appState and todoApp are created anew, the stored
\* tasks are loaded, the handlers are set up and the list is rendered.  Nothing
\* a script held before the page was loaded survives.
DOMContentLoaded ==
    /\ LET loaded == loadFromStorage(<<>>, FilterAll, slot)
       IN  /\ tasks' = loaded.tasks
           /\ currentFilter' = loaded.currentFilter
           /\ slot' = loaded.slot
           /\ last' = Call("DOMContentLoaded", Bool(loaded.result), "none", TRUE)
           /\ view' = renderTasks(loaded.tasks, loaded.currentFilter,
                                  IF loaded.buttons
                                  THEN updateFilterButtons(loaded.currentFilter, Markup)
                                  ELSE Markup)
    /\ todoApp' = "TaskList"
    /\ returned' = <<>>
    /\ message' = NoMessage
    /\ userMessages' = <<>>
    /\ timers' = {}
    /\ editingTaskId' = Null
    /\ UNCHANGED <<storage, now, otherTab>>
    /\ handlers' = TRUE
    /\ UNCHANGED pc

\* handleFilterClick on the filter button whose data-filter is filter
handleFilterClick(filter, clock) ==
    /\ todoApp = "TaskList"
    /\ Truthy(filter)
    /\ LET saved == saveToStorage(tasks, filter, clock)
       IN  /\ currentFilter' = filter
           /\ slot' = saved.slot
           /\ last' = Call("handleFilterClick", Undefined, SaveStatus(saved), TRUE)
    /\ view' = renderTasks(tasks, filter, updateFilterButtons(filter, view))
    /\ now' = Later(clock)
    /\ UNCHANGED <<tasks, storage, todoApp, returned>>
    /\ UNCHANGED <<message, userMessages, timers, editingTaskId, otherTab>>
    /\ UNCHANGED <<handlers, pc>>

\* handleClearCompleted on a click of the clear-completed button, the user
\* answering the confirmation with confirmed
HandleClearCompleted(confirmed, clock) ==
    /\ todoApp = "TaskList"
    /\ LET done == handleClearCompleted(tasks, confirmed, clock)
       IN  /\ tasks' = done.tasks
           /\ slot' = done.slot
           /\ last' = Call("handleClearCompleted", Undefined,
                           IF done.saves = 0 THEN "none"
                           ELSE IF done.saved > 0 THEN "ok" ELSE "failed",
                           done.renders > 0)
           /\ view' = IF done.renders > 0 THEN renderTasks(done.tasks, currentFilter, view)
                      ELSE view
    /\ now' = Later(clock)
    /\ UNCHANGED <<currentFilter, storage, todoApp, returned>>
    /\ UNCHANGED <<message, userMessages, timers, editingTaskId, otherTab>>
    /\ UNCHANGED <<handlers, pc>>

\* localStorage.setItem('todoApp', value) by another writer of the slot, be the
\* page open or not
externalSetItem(value) ==
    /\ storage # "unavailable"
    /\ slot' = value
    /\ last' = Call("externalSetItem", Undefined, "none", FALSE)
    /\ UNCHANGED <<tasks, currentFilter, storage, now, todoApp, returned>>
    /\ UNCHANGED <<view, message, userMessages, timers, editingTaskId, otherTab>>
    /\ UNCHANGED <<handlers, pc>>

\* todoApp.tasks = [] as the persistence test does before it loads: the
\* collection is emptied with neither a save nor a render
testClearTasks ==
    /\ todoApp = "TaskList"
    /\ tasks' = <<>>
    /\ last' = Call("testLocalStoragePersistence", Undefined, "none", FALSE)
    /\ UNCHANGED <<currentFilter, slot, storage, now, todoApp, returned>>
    /\ UNCHANGED <<view, message, userMessages, timers, editingTaskId, otherTab>>
    /\ UNCHANGED <<handlers, pc>>

\* A millisecond passes
tick ==
    /\ now < MaxTime
    /\ now' = now + 1
    /\ last' = Call("tick", Undefined, "none", FALSE)
    /\ UNCHANGED <<tasks, currentFilter, slot, storage, todoApp, returned>>
    /\ UNCHANGED <<view, message, userMessages, timers, editingTaskId, otherTab>>
    /\ UNCHANGED <<handlers, pc>>

\* The handler op, the calls it has made so far, and whether it still runs
Handler(op, done, running) == [op |-> op, done |-> done, running |-> running]

\* A tab whose page has not been loaded yet: the script's initial values
\* (appState, todoApp = null) and the page as the markup gives it
FreshTab ==
    [tasks |-> <<>>, currentFilter |-> FilterAll, todoApp |-> "null", returned |-> <<>>,
     view |-> Markup, message |-> NoMessage, userMessages |-> <<>>, timers |-> {},
     editingTaskId |-> Null, handlers |-> FALSE]

Init ==
    /\ tasks = <<>>
    /\ currentFilter = FilterAll
    /\ slot = Null
    /\ storage \in {"ok", "full", "unavailable"}
    /\ now = 0
    /\ todoApp = "null"
    /\ last = Call("script", Undefined, "none", FALSE)
    /\ returned = <<>>
    /\ view = Markup
    /\ message = NoMessage
    /\ userMessages = <<>>
    /\ timers = {}
    /\ editingTaskId = Null
    /\ otherTab = FreshTab
    /\ handlers = FALSE
    /\ pc = Handler("script", <<>>, FALSE)

\* The store driven by scripts (the console, the tests) while the clock runs:
\* the methods of todoApp, the load of the page, the filter buttons and the
\* clear button, the writes of the persistence test and of the other writers
\* of the slot.  The form, the buttons and check boxes of the list and the
\* keyboard shortcuts are left to NextUI.
Next ==
    \/ \E text \in StepTextArgs, clock \in Clock(4) : AddTask(text, clock)
    \/ \E id \in IdArgs(tasks), clock \in Clock(1) : DeleteTask(id, clock)
    \/ \E id \in IdArgs(tasks), clock \in Clock(2) : ToggleTask(id, clock)
    \/ \E id \in IdArgs(tasks), newText \in StepTextArgs, clock \in Clock(1) :
          EditTask(id, newText, clock)
    \/ \E clock \in Clock(1) : SaveToStorage(clock)
    \/ LoadFromStorage
    \/ DOMContentLoaded
    \/ \E filter \in FilterButtons, clock \in Clock(1) : handleFilterClick(filter, clock)
    \/ \E confirmed \in BOOLEAN, clock \in Clock(MaxTasks) :
          HandleClearCompleted(confirmed, clock)
    \/ \E value \in (IF todoApp = "null" THEN StoredSamples ELSE TestSamples) :
          externalSetItem(value)
    \/ testClearTasks
    \/ tick

Spec == Init /\ [][Next]_vars

(***************************************************************************)
(* The caller of getAllTasks().  [...this.tasks] makes a new array whose   *)
(* elements are the elements of this.tasks: the Task objects themselves,   *)
(* not copies of them.  An element of the array the caller holds is        *)
(* therefore a reference to the object at a position of this.tasks, or a   *)
(* value the caller put there itself.                                      *)
(***************************************************************************)
Ref(i) == [kind |-> "reference", index |-> i]

\* [...ts]: one reference per element, in order
spread(ts) == [i \in 1..Len(ts) |-> Ref(i)]

\* list = todoApp.getAllTasks()
GetAllTasks ==
    /\ todoApp = "TaskList"
    /\ returned' = spread(tasks)
    /\ last' = Call("getAllTasks", Undefined, "none", FALSE)
    /\ UNCHANGED <<tasks, currentFilter, slot, storage, now, todoApp>>
    /\ UNCHANGED <<view, message, userMessages, timers, editingTaskId, otherTab>>
    /\ UNCHANGED <<handlers, pc>>

\* list.push(null)
CallerPush ==
    /\ todoApp = "TaskList"
    /\ Len(returned) <= MaxTasks
    /\ returned' = Append(returned, Null)
    /\ last' = Call("list.push", Undefined, "none", FALSE)
    /\ UNCHANGED <<tasks, currentFilter, slot, storage, now, todoApp>>
    /\ UNCHANGED <<view, message, userMessages, timers, editingTaskId, otherTab>>
    /\ UNCHANGED <<handlers, pc>>

\* list.pop()
CallerPop ==
    /\ todoApp = "TaskList"
    /\ returned # <<>>
    /\ returned' = SubSeq(returned, 1, Len(returned) - 1)
    /\ last' = Call("list.pop", Undefined, "none", FALSE)
    /\ UNCHANGED <<tasks, currentFilter, slot, storage, now, todoApp>>
    /\ UNCHANGED <<view, message, userMessages, timers, editingTaskId, otherTab>>
    /\ UNCHANGED <<handlers, pc>>

\* The values the caller assigns to the fields of a listed task
CallerValues == [text |-> Str(<<>>), completed |-> Bool(TRUE)]

\* list[k][field] = CallerValues[field], list[k] being a listed Task object
CallerSetField(k, field) ==
    /\ todoApp = "TaskList"
    /\ k \in 1..Len(returned)
    /\ returned[k].kind = "reference"
    /\ tasks' = [tasks EXCEPT ![returned[k].index][field] = CallerValues[field]]
    /\ last' = Call("list[k].field=", Undefined, "none", FALSE)
    /\ UNCHANGED <<currentFilter, slot, storage, now, todoApp, returned>>
    /\ UNCHANGED <<view, message, userMessages, timers, editingTaskId, otherTab>>
    /\ UNCHANGED <<handlers, pc>>

CallerOps == {"list.push", "list.pop", "list[k].field="}

\* The store and a caller of getAllTasks().  The store's operations are those
\* that keep every Task object at its position of this.tasks: addTask pushes
\* at the end, toggleTask changes the object in place.
NextList ==
    \/ DOMContentLoaded
    \/ \E text \in StepTextArgs, clock \in Standstill(4) : AddTask(text, clock)
    \/ \E id \in IdArgs(tasks), clock \in Standstill(2) : ToggleTask(id, clock)
    \/ GetAllTasks
    \/ CallerPush
    \/ CallerPop
    \/ \E k \in 1..(MaxTasks + 1), field \in DOMAIN CallerValues : CallerSetField(k, field)

SpecList == Init /\ [][NextList]_vars

(***************************************************************************)
(* The user at the page.  The handlers setupEventHandlers installs are     *)
(* called with what the page shows: a click hits a button of an item that  *)
(* is displayed, and the id the handler gets is that item's data-task-id.  *)
(***************************************************************************)
\* What the user may have typed into #task-input or into an edit input
InputValues == { value \in StepTextArgs \cup {Str(<<>>)} : value.kind = "string" }

\* value.trim() of an input's value
trimmed(value) == Str(trim(value.chars))

\* document.querySelector('[data-task-id="id"]'): the position among the
\* displayed items of the first one with this id, 0 for none
querySelector(page, id) ==
    IF \E k \in 1..Len(page.items) : page.items[k].id = id
    THEN CHOOSE k \in 1..Len(page.items) :
            /\ page.items[k].id = id
            /\ \A j \in 1..(k - 1) : page.items[j].id # id
    ELSE 0

\* todoApp.showMessage(text, type) in a handler
ShowMessage(text, type) ==
    LET page == showMessageOn(userMessages, timers, text, type)
    IN  /\ userMessages' = page.userMessages
        /\ timers' = page.timers
        /\ message' = firstMessage(page.userMessages)

\* handleAddTask on the submission of #task-form, value being taskInput.value
handleAddTask(value, clock) ==
    /\ todoApp = "TaskList"
    /\ isValidText(trimmed(value)) => Len(tasks) < MaxTasks
    /\ Truthy(trimmed(value)) => Cardinality(timers) < MaxTimers
    /\ \E rnd \in RandomSuffixes :
         /\ LET taskText == trimmed(value)
                done == addTask(tasks, taskText, rnd, clock)
            IN  IF Truthy(taskText)
                THEN /\ tasks' = done.tasks
                     /\ slot' = done.slot
                     /\ view' = IF done.render
                                THEN renderTasks(done.tasks, currentFilter, view) ELSE view
                     /\ IF done.result # Null
                        THEN ShowMessage("Task added successfully!", "success")
                        ELSE ShowMessage("Failed to add task. Please check your input.",
                                         "error")
                     /\ last' = Call("handleAddTask", Undefined, done.save, done.render)
                ELSE /\ UNCHANGED <<tasks, slot, view, message, userMessages, timers>>
                     /\ last' = Call("handleAddTask", Undefined, "none", FALSE)
    /\ now' = Later(clock)
    /\ UNCHANGED <<currentFilter, storage, todoApp, returned, editingTaskId, otherTab>>
    /\ UNCHANGED <<handlers, pc>>

\* handleEditTask(id): the page and appState.editingTaskId afterwards.  The first
\* element with the id gets an edit input and the save and cancel buttons, and
\* its .task-actions gets a click listener that holds this input.  An element
\* that has them already (the edit button of a later item of the same id was
\* clicked) gets one more input and one more listener, and its buttons anew.
handleEditTask(ts, id, page, editing) ==
    LET k == querySelector(page, id)
    IN  IF find(ts, id) = 0 \/ k = 0
        THEN [view |-> page, editingTaskId |-> editing]
        ELSE [view |-> [page EXCEPT !.items[k].editing = TRUE,
                                    !.items[k].inputs = @ + 1],
              editingTaskId |-> id]

\* handleTaskListClick on a click on the delete or the edit button of the k-th
\* displayed item (an item that is being edited shows neither)
handleTaskListClick(k, button, clock) ==
    /\ todoApp = "TaskList"
    /\ k \in 1..Len(view.items)
    /\ ~view.items[k].editing
    /\ button = "edit-btn" /\ querySelector(view, view.items[k].id) # 0 =>
          view.items[querySelector(view, view.items[k].id)].inputs < MaxInputs
    /\ LET id == view.items[k].id
           done == deleteTask(tasks, id, clock)
           edit == handleEditTask(tasks, id, view, editingTaskId)
       IN  IF button = "delete-btn"
           THEN /\ tasks' = done.tasks
                /\ slot' = done.slot
                /\ view' = IF done.render
                           THEN renderTasks(done.tasks, currentFilter, view) ELSE view
                /\ last' = Call("handleTaskListClick", Undefined, done.save, done.render)
                /\ UNCHANGED editingTaskId
           ELSE /\ view' = edit.view
                /\ editingTaskId' = edit.editingTaskId
                /\ last' = Call("handleEditTask", Undefined, "none", FALSE)
                /\ UNCHANGED <<tasks, slot>>
    /\ now' = Later(clock)
    /\ UNCHANGED <<currentFilter, storage, todoApp, returned>>
    /\ UNCHANGED <<message, userMessages, timers, otherTab>>
    /\ UNCHANGED <<handlers, pc>>

\* handleTaskListChange on a change of the checkbox of the k-th displayed item
handleTaskListChange(k, clock) ==
    /\ todoApp = "TaskList"
    /\ k \in 1..Len(view.items)
    /\ LET done == toggleTask(tasks, view.items[k].id, clock)
       IN  /\ tasks' = done.tasks
           /\ slot' = done.slot
           /\ view' = IF done.render
                      THEN renderTasks(done.tasks, currentFilter, view) ELSE view
           /\ last' = Call("handleTaskListChange", Undefined, done.save, done.render)
    /\ now' = Later(clock)
    /\ UNCHANGED <<currentFilter, storage, todoApp, returned>>
    /\ UNCHANGED <<message, userMessages, timers, editingTaskId, otherTab>>
    /\ UNCHANGED <<handlers, pc>>

\* The keys handleKeyboardShortcuts knows
ShortcutKeys == {"n", "N", "1", "2", "3"}

\* The filter a key selects
shortcutFilter(key) ==
    CASE key = "1" -> FilterAll
      [] key = "2" -> FilterActive
      [] key = "3" -> FilterCompleted

\* handleKeyboardShortcuts on a keydown outside the input fields
handleKeyboardShortcuts(key) ==
    /\ todoApp = "TaskList"
    /\ IF key \in {"1", "2", "3"}
       THEN /\ currentFilter' = shortcutFilter(key)
            /\ view' = renderTasks(tasks, shortcutFilter(key),
                                   updateFilterButtons(shortcutFilter(key), view))
            /\ last' = Call("handleKeyboardShortcuts", Undefined, "none", TRUE)
       ELSE /\ UNCHANGED <<currentFilter, view>>
            /\ last' = Call("handleKeyboardShortcuts", Undefined, "none", FALSE)
    /\ UNCHANGED <<tasks, slot, storage, now, todoApp, returned>>
    /\ UNCHANGED <<message, userMessages, timers, editingTaskId, otherTab>>
    /\ UNCHANGED <<handlers, pc>>

\* What a listener of an edit input works on: the store's tasks, the page, the
\* messages and their timers, appState.editingTaskId, and the number of times
\* renderTasks has been called since the event was dispatched
App ==
    [tasks |-> tasks, view |-> view, userMessages |-> userMessages, timers |-> timers,
     editingTaskId |-> editingTaskId, renders |-> 0]

\* saveTaskEdit(taskId, newText), newText being editInput.value.trim()
saveTaskEdit(app, id, newText, clock) ==
    LET done == editTask(app.tasks, id, newText, clock)
        shown(text, type) == showMessageOn(app.userMessages, app.timers, text, type)
        with(page) == [app EXCEPT !.userMessages = page.userMessages,
                                  !.timers = page.timers]
    IN  IF ~Truthy(newText)
        THEN with(shown("Task text cannot be empty", "warning"))
        ELSE IF done.result # Null
        THEN [with(shown("Task updated successfully!", "success")) EXCEPT
                 !.tasks = done.tasks,
                 !.editingTaskId = Null,
                 !.view = renderTasks(done.tasks, currentFilter, app.view),
                 !.renders = @ + 1]
        ELSE with(shown("Failed to update task", "error"))

\* The click on a save button reaches every click listener handleEditTask has
\* added to the item's .task-actions, in the order in which they were added
\* and also when an earlier one has rendered the list anew; each calls
\* saveTaskEdit with the value of its own input, values[i] for the i-th.  A
\* call that edits the task reads the clock once.
RECURSIVE dispatchEvent(_, _, _, _)
dispatchEvent(app, id, values, clock) ==
    IF values = <<>> THEN app
    ELSE LET saved == saveTaskEdit(app, id, trimmed(Head(values)), clock)
         IN  dispatchEvent(saved, id, Tail(values),
                           IF saved.renders > app.renders THEN After(clock, 1) ELSE clock)

\* A click on the save button of the k-th displayed item, values holding the
\* values of all its edit inputs, or Enter in one of its edit inputs, values
\* holding the value of that one
SaveTaskEdit(k, values, clock) ==
    /\ todoApp = "TaskList"
    /\ k \in 1..Len(view.items)
    /\ view.items[k].editing
    /\ Len(values) \in {1, view.items[k].inputs}
    /\ Len(clock) = Len(values)
    /\ Cardinality(timers) + Len(values) <= MaxTimers
    /\ LET saved == dispatchEvent(App, view.items[k].id, values, clock)
       IN  /\ tasks' = saved.tasks
           /\ view' = saved.view
           /\ editingTaskId' = saved.editingTaskId
           /\ userMessages' = saved.userMessages
           /\ timers' = saved.timers
           /\ message' = firstMessage(saved.userMessages)
           /\ last' = Call("saveTaskEdit", Undefined, "none", saved.renders > 0)
    /\ now' = Later(clock)
    /\ UNCHANGED <<currentFilter, slot, storage, todoApp, returned, otherTab>>
    /\ UNCHANGED <<handlers, pc>>

\* A variant of cancelTaskEdit that writes the task's text back with editTask
cancelTaskEdit_edits(k) ==
    /\ todoApp = "TaskList"
    /\ k \in 1..Len(view.items)
    /\ view.items[k].editing
    /\ LET id == view.items[k].id
           done == editTask(tasks, id, tasks[find(tasks, id)].text, <<now>>)
       IN  /\ tasks' = done.tasks
           /\ view' = renderTasks(done.tasks, currentFilter, view)
    /\ editingTaskId' = Null
    /\ last' = Call("cancelTaskEdit", Undefined, "none", TRUE)
    /\ UNCHANGED <<currentFilter, slot, storage, now, todoApp, returned>>
    /\ UNCHANGED <<message, userMessages, timers, otherTab>>
    /\ UNCHANGED <<handlers, pc>>

\* cancelTaskEdit(taskId) on a click on the cancel button, or on Escape in the
\* edit input, of the k-th displayed item
cancelTaskEdit(k) ==
    /\ todoApp = "TaskList"
    /\ k \in 1..Len(view.items)
    /\ view.items[k].editing
    /\ editingTaskId' = Null
    /\ view' = renderTasks(tasks, currentFilter, view)
    /\ last' = Call("cancelTaskEdit", Undefined, "none", TRUE)
    /\ UNCHANGED <<tasks, currentFilter, slot, storage, now, todoApp, returned>>
    /\ UNCHANGED <<message, userMessages, timers, otherTab>>
    /\ UNCHANGED <<handlers, pc>>

\* s.includes(sub), on the characters of the strings
includes(s, sub) ==
    \E i \in 0..(Len(s) - Len(sub)) : SubSeq(s, i + 1, i + Len(sub)) = sub

\* The message handleError chooses for error
userMessage(error) ==
    IF error.name = "QuotaExceededError"
    THEN "Storage is full. Some features may not work."
    ELSE IF includes(error.message,
                     <<"l", "o", "c", "a", "l", "S", "t", "o", "r", "a", "g", "e">>)
    THEN "Unable to save changes. Check your browser settings."
    ELSE IF \/ includes(error.message, <<"n", "e", "t", "w", "o", "r", "k">>)
            \/ includes(error.message, <<"f", "e", "t", "c", "h">>)
    THEN "Network error. Please check your connection."
    ELSE "Something went wrong. Please refresh the page and try again."

\* The errors handleError is called with: any error, a full storage, a refused
\* access, and errors whose messages name localStorage, the network and fetch
ErrorArgs ==
    { [name |-> "Error", message |-> <<"x">>],
      [name |-> "QuotaExceededError", message |-> <<"f", "u", "l", "l">>],
      [name |-> "SecurityError", message |-> <<"d", "e", "n", "i", "e", "d">>],
      [name |-> "Error",
       message |-> <<"n", "o", " ", "l", "o", "c", "a", "l", "S", "t", "o", "r", "a", "g", "e">>],
      [name |-> "TypeError",
       message |-> <<"n", "e", "t", "w", "o", "r", "k", " ", "d", "o", "w", "n">>],
      [name |-> "TypeError",
       message |-> <<"F", "a", "i", "l", "e", "d", " ", "t", "o", " ", "f", "e", "t", "c", "h">>] }

\* todoApp.handleError(error, context): the error is shown as a message
handleError(error) ==
    /\ todoApp = "TaskList"
    /\ Cardinality(timers) < MaxTimers
    /\ ShowMessage(userMessage(error), "error")
    /\ last' = Call("handleError", Undefined, "none", FALSE)
    /\ UNCHANGED <<tasks, currentFilter, slot, storage, now, todoApp, returned>>
    /\ UNCHANGED <<view, editingTaskId, otherTab>>
    /\ UNCHANGED <<handlers, pc>>

\* The timer showMessage set for the element messageElement expires: its
\* callback removes the element if the page still holds it
messageTimeout(messageElement) ==
    /\ messageElement \in timers
    /\ timers' = timers \ {messageElement}
    /\ userMessages' = timerCallback(userMessages, messageElement)
    /\ message' = firstMessage(timerCallback(userMessages, messageElement))
    /\ last' = Call("setTimeout", Undefined, "none", FALSE)
    /\ UNCHANGED <<tasks, currentFilter, slot, storage, now, todoApp, returned>>
    /\ UNCHANGED <<view, editingTaskId, otherTab>>
    /\ UNCHANGED <<handlers, pc>>

\* The stored values the page is loaded with, besides none
PageSamples == { NotJSON, LegacyRecord }

NextUI ==
    \/ DOMContentLoaded
    \/ \E value \in InputValues, clock \in Standstill(4) :
          timers = {} /\ handleAddTask(value, clock)
    \/ \E k \in 1..MaxTasks, button \in {"delete-btn", "edit-btn"}, clock \in Standstill(1) :
          handleTaskListClick(k, button, clock)
    \/ \E k \in 1..MaxTasks, clock \in Standstill(2) : handleTaskListChange(k, clock)
    \/ \E filter \in FilterButtons, clock \in Standstill(1) : handleFilterClick(filter, clock)
    \/ \E confirmed \in BOOLEAN, clock \in Standstill(MaxTasks) :
          HandleClearCompleted(confirmed, clock)
    \/ \E key \in ShortcutKeys : handleKeyboardShortcuts(key)
    \/ \E k \in { i \in 1..Len(view.items) : view.items[i].editing } :
          \E n \in {1, view.items[k].inputs} :
             \E values \in [1..n -> InputValues], clock \in Standstill(n) :
                timers = {} /\ SaveTaskEdit(k, values, clock)
    \/ \E k \in 1..MaxTasks : cancelTaskEdit(k)
    \/ \E messageElement \in 1..MaxTimers : messageTimeout(messageElement)
    \/ \E value \in PageSamples : todoApp = "null" /\ externalSetItem(value)

\* The user at the page, within one millisecond of the clock: the tasks get
\* equal time stamps, and ids that differ by their random suffix only.  The
\* slot is written by another writer before the page is loaded, not after.
\* The user submits the form or confirms an edit when the message of the
\* previous submission is gone (its timer has expired); NextMessages has the
\* submissions that follow each other faster.
SpecUI == Init /\ [][NextUI]_vars

\* The user editing tasks with the mouse while the clock runs: the buttons and
\* check boxes of the list, the edit inputs and the form.  The filter buttons,
\* the clear button and the keyboard shortcuts are left to NextUI.  As there,
\* the form is submitted and an edit confirmed when no message timer is
\* pending.
NextEdit ==
    \/ DOMContentLoaded
    \/ \E value \in InputValues, clock \in Clock(4) :
          timers = {} /\ handleAddTask(value, clock)
    \/ \E k \in 1..MaxTasks, button \in {"delete-btn", "edit-btn"}, clock \in Clock(1) :
          handleTaskListClick(k, button, clock)
    \/ \E k \in 1..MaxTasks, clock \in Clock(2) : handleTaskListChange(k, clock)
    \/ \E k \in { i \in 1..Len(view.items) : view.items[i].editing } :
          \E n \in {1, view.items[k].inputs} :
             \E values \in [1..n -> InputValues], clock \in Clock(n) :
                timers = {} /\ SaveTaskEdit(k, values, clock)
    \/ \E k \in 1..MaxTasks : cancelTaskEdit(k)
    \/ \E messageElement \in 1..MaxTimers : messageTimeout(messageElement)
    \/ \E value \in PageSamples : todoApp = "null" /\ externalSetItem(value)
    \/ tick

SpecEdit == Init /\ [][NextEdit]_vars

(***************************************************************************)
(* The messages.  The handlers that call showMessage, and the timers: the  *)
(* browser runs the callback of every pending timer of a page after its    *)
(* delay, between two handlers, unless the page is loaded again before.    *)
(***************************************************************************)
NextMessages ==
    \/ DOMContentLoaded
    \/ \E value \in InputValues, clock \in Clock(4) : handleAddTask(value, clock)
    \/ \E k \in 1..MaxTasks, button \in {"delete-btn", "edit-btn"}, clock \in Clock(1) :
          handleTaskListClick(k, button, clock)
    \/ \E k \in { i \in 1..Len(view.items) : view.items[i].editing } :
          \E n \in {1, view.items[k].inputs} :
             \E values \in [1..n -> InputValues], clock \in Clock(n) :
                SaveTaskEdit(k, values, clock)
    \/ \E error \in ErrorArgs : handleError(error)
    \/ \E messageElement \in 1..MaxTimers : messageTimeout(messageElement)

SpecMessages ==
    /\ Init
    /\ [][NextMessages]_vars
    /\ \A messageElement \in 1..MaxTimers : WF_vars(messageTimeout(messageElement))

(***************************************************************************)
(* Two tabs on one localStorage.  Each tab has its own script and page;    *)
(* the slot, the storage medium and the clock are shared.  A handler runs  *)
(* to completion in its tab, and the storage calls are synchronous, so the *)
(* tabs interleave handler by handler: the variables of the store describe *)
(* the tab whose handler runs next, otherTab the tab that waits.           *)
(***************************************************************************)
\* The other tab's handler is the next to run
switchTab ==
    /\ tasks' = otherTab.tasks
    /\ currentFilter' = otherTab.currentFilter
    /\ todoApp' = otherTab.todoApp
    /\ returned' = otherTab.returned
    /\ view' = otherTab.view
    /\ message' = otherTab.message
    /\ userMessages' = otherTab.userMessages
    /\ timers' = otherTab.timers
    /\ editingTaskId' = otherTab.editingTaskId
    /\ handlers' = otherTab.handlers
    /\ otherTab' = [tasks |-> tasks, currentFilter |-> currentFilter, todoApp |-> todoApp,
                    returned |-> returned, view |-> view, message |-> message,
                    userMessages |-> userMessages, timers |-> timers,
                    editingTaskId |-> editingTaskId, handlers |-> handlers]
    /\ last' = Call("switchTab", Undefined, "none", FALSE)
    /\ UNCHANGED <<slot, storage, now>>
    /\ UNCHANGED pc

\* A call is over within the millisecond it starts in; the clock advances
\* between the calls.
NextTabs ==
    \/ DOMContentLoaded
    \/ \E text \in StepTextArgs, clock \in Standstill(4) : AddTask(text, clock)
    \/ \E id \in IdArgs(tasks), clock \in Standstill(1) : DeleteTask(id, clock)
    \/ \E id \in IdArgs(tasks), clock \in Standstill(2) : ToggleTask(id, clock)
    \/ switchTab
    \/ tick

\* Two tabs on one working localStorage (no operation changes the storage
\* mode, and with failing storage no tab writes the slot)
InitTabs == Init /\ storage = "ok"

SpecTabs == InitTabs /\ [][NextTabs]_vars

(***************************************************************************)
(* The handlers call by call.  A handler that has started runs to its end  *)
(* before the browser dispatches the next event: between its calls no      *)
(* other handler starts.  pc.done lists the calls the handler has made.    *)
(***************************************************************************)
\* A variant of MutatorSteps that renders before it saves
MutatorSteps_renderFirst == <<"mutate", "renderTasks", "saveToStorage">>

\* What addTask, deleteTask and toggleTask do, in this order, once the text or
\* the id is accepted
MutatorSteps == <<"mutate", "saveToStorage", "renderTasks">>

\* A variant of StartupSteps that installs the handlers before it loads
StartupSteps_handlersFirst ==
    <<"new TaskList", "setupEventHandlers", "loadFromStorage", "renderTasks">>

\* What the DOMContentLoaded handler does, in this order
StartupSteps ==
    <<"new TaskList", "loadFromStorage", "setupEventHandlers", "renderTasks">>

Steps(op) == IF op = "DOMContentLoaded" THEN StartupSteps ELSE MutatorSteps

\* The call the running handler makes next
nextCall == Steps(pc.op)[Len(pc.done) + 1]

\* The running handler once it has made that call
advance == Handler(pc.op, Append(pc.done, nextCall), Len(pc.done) + 1 < Len(Steps(pc.op)))

\* The handler op has changed the collection, or has returned without a change
begun(op, changed) ==
    IF changed THEN Handler(op, <<MutatorSteps[1]>>, TRUE) ELSE Handler(op, <<>>, FALSE)

\* addTask(text), up to the push: the constructor's three readings of the clock
\* (the save is a step of its own, what addTask says of it is left aside here)
beginAddTask(text, clock) ==
    /\ handlers /\ ~pc.running
    /\ isValidText(text) => Len(tasks) < MaxTasks
    /\ \E rnd \in RandomSuffixes :
         /\ LET done == addTask(tasks, text, rnd, clock \o clock)
            IN  /\ tasks' = done.tasks
                /\ pc' = begun("addTask", done.render)
                /\ last' = Call("addTask", done.result, "none", FALSE)
    /\ now' = Later(clock)
    /\ UNCHANGED <<currentFilter, slot, storage, todoApp, returned>>
    /\ UNCHANGED <<view, message, userMessages, timers, editingTaskId, otherTab, handlers>>

\* deleteTask(id), up to the assignment of the filtered list
beginDeleteTask(id) ==
    /\ handlers /\ ~pc.running
    /\ LET done == deleteTask(tasks, id, <<now>>)
       IN  /\ tasks' = done.tasks
           /\ pc' = begun("deleteTask", done.render)
           /\ last' = Call("deleteTask", done.result, "none", FALSE)
    /\ UNCHANGED <<currentFilter, slot, storage, now, todoApp, returned>>
    /\ UNCHANGED <<view, message, userMessages, timers, editingTaskId, otherTab, handlers>>

\* toggleTask(id), up to task.toggle() and its reading of the clock
beginToggleTask(id, clock) ==
    /\ handlers /\ ~pc.running
    /\ LET done == toggleTask(tasks, id, clock \o clock)
       IN  /\ tasks' = done.tasks
           /\ pc' = begun("toggleTask", done.render)
           /\ last' = Call("toggleTask", done.result, "none", FALSE)
    /\ now' = Later(clock)
    /\ UNCHANGED <<currentFilter, slot, storage, todoApp, returned>>
    /\ UNCHANGED <<view, message, userMessages, timers, editingTaskId, otherTab, handlers>>

\* this.saveToStorage() in the running handler
saveStep(clock) ==
    /\ pc.running /\ nextCall = "saveToStorage"
    /\ LET saved == saveToStorage(tasks, currentFilter, clock)
       IN  /\ slot' = saved.slot
           /\ last' = [last EXCEPT !.save = SaveStatus(saved)]
    /\ pc' = advance
    /\ now' = Later(clock)
    /\ UNCHANGED <<tasks, currentFilter, storage, todoApp, returned>>
    /\ UNCHANGED <<view, message, userMessages, timers, editingTaskId, otherTab, handlers>>

\* renderTasks() in the running handler
renderStep ==
    /\ pc.running /\ nextCall = "renderTasks"
    /\ view' = renderTasks(tasks, currentFilter, view)
    /\ last' = [last EXCEPT !.render = TRUE]
    /\ pc' = advance
    /\ UNCHANGED <<tasks, currentFilter, slot, storage, now, todoApp, returned>>
    /\ UNCHANGED <<message, userMessages, timers, editingTaskId, otherTab, handlers>>

\* The page is loaded (again): the script runs, and the DOMContentLoaded handler
\* creates the store
beginDOMContentLoaded ==
    /\ ~pc.running
    /\ tasks' = <<>>
    /\ currentFilter' = FilterAll
    /\ todoApp' = "TaskList"
    /\ returned' = <<>>
    /\ view' = Markup
    /\ message' = NoMessage
    /\ userMessages' = <<>>
    /\ timers' = {}
    /\ editingTaskId' = Null
    /\ handlers' = FALSE
    /\ pc' = Handler("DOMContentLoaded", <<StartupSteps[1]>>, TRUE)
    /\ last' = Call("DOMContentLoaded", Undefined, "none", FALSE)
    /\ UNCHANGED <<slot, storage, now, otherTab>>

\* todoApp.loadFromStorage() in the DOMContentLoaded handler
loadStep ==
    /\ pc.running /\ nextCall = "loadFromStorage"
    /\ LET loaded == loadFromStorage(tasks, currentFilter, slot)
       IN  /\ tasks' = loaded.tasks
           /\ currentFilter' = loaded.currentFilter
           /\ slot' = loaded.slot
           /\ view' = IF loaded.buttons
                      THEN updateFilterButtons(loaded.currentFilter, view) ELSE view
           /\ last' = [last EXCEPT !.result = Bool(loaded.result)]
    /\ pc' = advance
    /\ UNCHANGED <<storage, now, todoApp, returned>>
    /\ UNCHANGED <<message, userMessages, timers, editingTaskId, otherTab, handlers>>

\* setupEventHandlers() in the DOMContentLoaded handler
setupStep ==
    /\ pc.running /\ nextCall = "setupEventHandlers"
    /\ handlers' = TRUE
    /\ pc' = advance
    /\ UNCHANGED <<tasks, currentFilter, slot, storage, now, todoApp, last, returned>>
    /\ UNCHANGED <<view, message, userMessages, timers, editingTaskId, otherTab>>

NextSteps ==
    \/ beginDOMContentLoaded
    \/ loadStep
    \/ setupStep
    \/ \E text \in StepTextArgs, clock \in Clock(3) : beginAddTask(text, clock)
    \/ \E id \in IdArgs(tasks) : beginDeleteTask(id)
    \/ \E id \in IdArgs(tasks), clock \in Clock(1) : beginToggleTask(id, clock)
    \/ \E clock \in Clock(1) : saveStep(clock)
    \/ renderStep
    \/ \E value \in StoredSamples : todoApp = "null" /\ externalSetItem(value)
    \/ tick

\* The handlers call by call.  A handler runs to completion, no other code of
\* the page runs between two of its calls; the slot is written by another
\* writer before the page is loaded.
SpecSteps == Init /\ [][NextSteps]_vars

(***************************************************************************)
(* The properties.                                                         *)
(***************************************************************************)
\* The texts the store accepts, as the documentation describes them: strings
\* whose trimmed length is between 1 and 500
Acceptable(text) ==
    /\ text.kind = "string"
    /\ Len(trim(text.chars)) \in 1..500

\* C1: for every string s whose trimmed length is between 1 and 500, add(s) in
\* any store state returns a task with text = trim(s) and completed = false,
\* makes the collection one longer, puts the new task at the end and leaves the
\* tasks that were there, and their order, as they were.
C1_AddAppends ==
    \A text \in TextArgs, rnd \in RandomSuffixes, clock \in Clock(4) :
        Acceptable(text) =>
            LET done == addTask(tasks, text, rnd, clock)
            IN  /\ done.result # Null
                /\ done.result.text = Str(trim(text.chars))
                /\ done.result.completed = Bool(FALSE)
                /\ Len(done.tasks) = Len(tasks) + 1
                /\ done.tasks[Len(done.tasks)] = done.result
                /\ SubSeq(done.tasks, 1, Len(tasks)) = tasks

\* A valid text was added to a store that held a task: the task returned is the
\* last of two, incomplete, with the trimmed text.
C1_Witness ==
    /\ last.op = "addTask"
    /\ last.result # Null
    /\ Len(tasks) = 2
    /\ tasks[2] = last.result
    /\ last.result.text = Str(ShortText)
    /\ last.result.completed = Bool(FALSE)

\* C2: add(text) with a text that is empty, white space only, longer than 500
\* characters once trimmed, or not a string, returns null, leaves the collection
\* as it was and does not write the slot.
C2_AddRejects ==
    \A text \in TextArgs, rnd \in RandomSuffixes, clock \in Clock(4) :
        ~Acceptable(text) =>
            LET done == addTask(tasks, text, rnd, clock)
            IN  /\ done.result = Null
                /\ done.tasks = tasks
                /\ done.slot = slot
                /\ done.save = "none"

\* An invalid text was given to a store that holds tasks and whose slot is written.
C2_Witness ==
    /\ last.op = "addTask"
    /\ last.result = Null
    /\ last.save = "none"
    /\ Len(tasks) = 2
    /\ storage = "ok"
    /\ slot # Null

\* The sequence ts without its i-th element
Without(ts, i) == SubSeq(ts, 1, i - 1) \o SubSeq(ts, i + 1, Len(ts))

\* C3: for an id present in the store, toggle(id) flips that task's completed
\* flag and leaves every other task as it was, and a second toggle(id) gives the
\* task its original completed value back.
C3_ToggleTwice ==
    \A id \in IdArgs(tasks), clock \in Clock(4) :
        find(tasks, id) # 0 =>
            LET i == find(tasks, id)
                once == toggleTask(tasks, id, clock).tasks
                twice == toggleTask(once, id, After(clock, 2)).tasks
            IN  /\ once[i].completed # tasks[i].completed
                /\ \A j \in 1..Len(tasks) : j # i => once[j] = tasks[j]
                /\ twice[i].completed = tasks[i].completed

\* C4, as stated: every successful toggle(id) and edit(id, newText) leaves the
\* task with an updatedAt that differs from the one it had, and with the
\* createdAt and id it had.
C4_UpdatedAtDiffers ==
    \A id \in IdArgs(tasks), clock \in Clock(2) :
        find(tasks, id) # 0 =>
            LET i == find(tasks, id)
            IN  /\ toggleTask(tasks, id, clock).tasks[i].updatedAt # tasks[i].updatedAt
                /\ \A newText \in TextArgs :
                      Acceptable(newText) =>
                          editTask(tasks, id, newText, clock).tasks[i].updatedAt
                              # tasks[i].updatedAt

\* C4, amended: every successful toggle(id) and edit(id, newText) sets the task's
\* updatedAt to the reading of the clock the call makes, which differs from the value
\* before whenever the task was not created or changed within the same
\* millisecond; createdAt and id keep their values.
C4_UpdatedAtRefreshed ==
    \A id \in IdArgs(tasks), clock \in Clock(2) :
        find(tasks, id) # 0 =>
            LET i == find(tasks, id)
                Refreshed(task) ==
                    /\ task.updatedAt = toISOString(clock[1])
                    /\ tasks[i].updatedAt # toISOString(clock[1]) =>
                          task.updatedAt # tasks[i].updatedAt
                    /\ task.createdAt = tasks[i].createdAt
                    /\ task.id = tasks[i].id
            IN  /\ toggleTask(tasks, id, clock).result # Null
                /\ Refreshed(toggleTask(tasks, id, clock).tasks[i])
                /\ \A newText \in TextArgs :
                      Acceptable(newText) =>
                          /\ editTask(tasks, id, newText, clock).result # Null
                          /\ Refreshed(editTask(tasks, id, newText, clock).tasks[i])

\* A task created at one clock reading was toggled at a later one.
C4_Witness ==
    /\ last.op = "toggleTask"
    /\ last.result # Null
    /\ last.result.createdAt = toISOString(0)
    /\ last.result.updatedAt = toISOString(1)
    /\ last.result.completed = Bool(TRUE)
    /\ \E i \in 1..Len(tasks) : tasks[i] = last.result

\* C5: delete(id) for an id present in the store returns true and removes exactly
\* one task, the one with that id: the collection gets one shorter and the other
\* tasks remain, in the order they had.
C5_DeleteOne ==
    \A id \in IdArgs(tasks), clock \in Clock(1) :
        find(tasks, id) # 0 =>
            LET done == deleteTask(tasks, id, clock)
            IN  /\ done.result = Bool(TRUE)
                /\ Len(done.tasks) = Len(tasks) - 1
                /\ done.tasks = Without(tasks, find(tasks, id))

\* C6: delete(id) for an id that is not in the store returns false, leaves the
\* collection as it was and makes neither a save nor a render; delete makes a save
\* and a render only when it removed a task.
C6_DeleteAbsent ==
    \A id \in IdArgs(tasks), clock \in Clock(1) :
        LET done == deleteTask(tasks, id, clock)
        IN  /\ find(tasks, id) = 0 =>
                  /\ done.result = Bool(FALSE)
                  /\ done.tasks = tasks
                  /\ done.slot = slot
                  /\ done.save = "none"
                  /\ ~done.render
            /\ (done.save # "none" \/ done.render) =>
                  /\ Len(done.tasks) < Len(tasks)
                  /\ done.result = Bool(TRUE)

\* delete was called with an id that no task of a store with tasks has.
C6_Witness ==
    /\ last.op = "deleteTask"
    /\ last.result = Bool(FALSE)
    /\ last.save = "none"
    /\ ~last.render
    /\ Len(tasks) = 2
    /\ storage = "ok"

\* C7: in every state of the store list("active") and list("completed") have no
\* task in common, together they hold the tasks of list("all"), and the number of
\* all tasks is that of the active ones plus that of the completed ones.
C7_FilterPartition ==
    LET all == getFilteredTasks(tasks, FilterAll)
        active == getFilteredTasks(tasks, FilterActive)
        completed == getFilteredTasks(tasks, FilterCompleted)
    IN  /\ \A i \in 1..Len(active), j \in 1..Len(completed) : active[i] # completed[j]
        /\ \A i \in 1..Len(all) :
              \/ \E j \in 1..Len(active) : active[j] = all[i]
              \/ \E j \in 1..Len(completed) : completed[j] = all[i]
        /\ \A i \in 1..Len(active) : \E j \in 1..Len(all) : all[j] = active[i]
        /\ \A i \in 1..Len(completed) : \E j \in 1..Len(all) : all[j] = completed[i]
        /\ all = getAllTasks(tasks)
        /\ Len(all) = Len(active) + Len(completed)

\* A store with an active and a completed task, after a toggle.
C7_Witness ==
    /\ last.op = "toggleTask"
    /\ Len(getFilteredTasks(tasks, FilterActive)) = 1
    /\ Len(getFilteredTasks(tasks, FilterCompleted)) = 1
    /\ Len(getFilteredTasks(tasks, FilterAll)) = 2

\* C8: a successful save of a task collection followed by a load into a store
\* gives that store the same tasks, field for field and in the same order, and
\* the filter that was active at the save.
C8_RoundTrip ==
    storage = "ok" =>
        \A text \in TextArgs, ts \in {<<>>, tasks}, filter \in FilterButtons,
           clock \in Clock(5) :
            LET T == addTask(tasks, text, FirstSuffix, clock).tasks
                saved == saveToStorage(T, currentFilter, After(clock, 4))
                loaded == loadFromStorage(ts, filter, saved.slot)
            IN  /\ saved.result
                /\ loaded.result
                /\ Len(loaded.tasks) = Len(T)
                /\ \A i \in 1..Len(T) :
                      /\ loaded.tasks[i].id = T[i].id
                      /\ loaded.tasks[i].text = T[i].text
                      /\ loaded.tasks[i].completed = T[i].completed
                      /\ loaded.tasks[i].createdAt = T[i].createdAt
                      /\ loaded.tasks[i].updatedAt = T[i].updatedAt
                /\ loaded.currentFilter = currentFilter

\* The page was loaded again just after a save: the store holds the two tasks
\* saved, a completed and an active one, and the filter saved.
C8_Witness ==
    /\ last.op = "DOMContentLoaded"
    /\ last.result = Bool(TRUE)
    /\ storage = "ok"
    /\ \E clock \in [1..1 -> 0..MaxTime] :
          slot = JSONstringify(dataToSave(tasks, currentFilter, clock))
    /\ Len(tasks) = 2
    /\ tasks[1].completed = Bool(TRUE)
    /\ tasks[2].completed = Bool(FALSE)
    /\ tasks[1].id # tasks[2].id
    /\ currentFilter = FilterCompleted

\* Stored values that are not of the serialized form: a text that is not JSON,
\* and JSON texts of another structure than a record with a list of tasks
NonConforming == { NotJSON, TasksNotList, NullElement }

\* C9, as stated: a load from a slot that holds non-conforming data leaves the
\* store with an empty task list, whatever it held before.
C9_LoadYieldsEmpty ==
    (storage # "unavailable" /\ slot \in NonConforming) =>
        loadFromStorage(tasks, currentFilter, slot).tasks = <<>>

\* C9, amended: a load from a slot that holds non-conforming data reports failure
\* and leaves the tasks and the filter of the store as they were before the
\* load, so that the task list is empty when the store was empty, as it is at
\* start-up.
C9_FailedLoadKeepsStore ==
    storage # "unavailable" =>
        \A storedData \in NonConforming :
            /\ ~loadFromStorage(tasks, currentFilter, storedData).result
            /\ loadFromStorage(tasks, currentFilter, storedData).tasks = tasks
            /\ loadFromStorage(tasks, currentFilter, storedData).currentFilter = currentFilter
            /\ loadFromStorage(<<>>, FilterAll, storedData).tasks = <<>>

\* A store that holds a task has loaded from a slot with non-conforming data.
C9_Witness ==
    /\ last.op = "loadFromStorage"
    /\ last.result = Bool(FALSE)
    /\ storage # "unavailable"
    /\ slot \in NonConforming
    /\ Len(tasks) > 0

\* C10: whenever load finds a stored value that is not of the serialized form, or
\* is parseable but of another structure, it reports failure and clears the slot,
\* so that a later load does not find the value.
C10_LoadClearsSlot ==
    (storage # "unavailable" /\ slot \in NonConforming) =>
        /\ ~loadFromStorage(tasks, currentFilter, slot).result
        /\ loadFromStorage(tasks, currentFilter, slot).slot = Null

\* The fields of a task
TaskFields == {"id", "text", "completed", "createdAt", "updatedAt"}

\* The stored value is the serialized record of the tasks ts and the filter:
\* every task with every field, the filter name and the version
HoldsRecord(stored, ts, filter) ==
    /\ JSONparse(stored).ok
    /\ LET record == JSONparse(stored).value
           items == Get(record, "tasks").items
       IN  /\ isArray(Get(record, "tasks"))
           /\ Len(items) = Len(ts)
           /\ \A i \in 1..Len(ts), f \in TaskFields : Get(items[i], f) = ts[i][f]
           /\ Get(Get(record, "settings"), "currentFilter") = filter
           /\ Get(record, "version") = Str(<<"1", ".", "0", ".", "0">>)

\* C11: save returns true only after the slot has been overwritten with the
\* full current record (all tasks, filter, version); it returns false when the
\* storage is unavailable or the write is rejected, and the slot then keeps the
\* value it had.
C11_SaveContract ==
    \A text \in TextArgs, clock \in Clock(5) :
        LET T == addTask(tasks, text, FirstSuffix, clock).tasks
            saved == saveToStorage(T, currentFilter, After(clock, 4))
        IN  /\ storage = "ok" => saved.result
            /\ saved.result => HoldsRecord(saved.slot, T, currentFilter)
            /\ storage \in {"unavailable", "full"} => ~saved.result
            /\ ~saved.result => saved.slot = slot

\* A save of two tasks has returned true.
C11_Witness ==
    /\ last.op = "saveToStorage"
    /\ last.result = Bool(TRUE)
    /\ Len(tasks) = 2
    /\ tasks[1].id # tasks[2].id
    /\ HoldsRecord(slot, tasks, currentFilter)

\* C12: the collection an add, toggle, delete or edit leaves in memory, the
\* value it returns and the lists listed are determined by the collection
\* before, the arguments and the clock alone: they are the same whether the
\* saves succeed or fail, and a failed save neither aborts nor undoes the change.
C12_BestEffort ==
    /\ \A text \in TextArgs, rnd \in RandomSuffixes, clock \in Clock(4) :
          LET done == addTask(tasks, text, rnd, clock)
          IN  IF Acceptable(text)
              THEN /\ done.result = Task(text, rnd, clock)
                   /\ done.tasks = Append(tasks, Task(text, rnd, clock))
              ELSE done.result = Null /\ done.tasks = tasks
    /\ \A id \in IdArgs(tasks), clock \in Clock(2) :
          LET i == find(tasks, id)
              toggled == toggleTask(tasks, id, clock)
              deleted == deleteTask(tasks, id, clock)
          IN  /\ IF i = 0
                 THEN toggled.result = Null /\ toggled.tasks = tasks
                 ELSE /\ toggled.result = toggle(tasks[i], clock)
                      /\ toggled.tasks = [tasks EXCEPT ![i] = toggle(tasks[i], clock)]
              /\ deleted.result = Bool(i # 0)
              /\ deleted.tasks = SelectSeq(tasks, LAMBDA task : task.id # id)
              /\ \A newText \in TextArgs :
                    LET edited == editTask(tasks, id, newText, clock)
                    IN  IF i = 0 \/ ~Acceptable(newText)
                        THEN edited.result = Null /\ edited.tasks = tasks
                        ELSE /\ edited.result = updateText(tasks[i], newText, clock)
                             /\ edited.tasks =
                                   [tasks EXCEPT ![i] = updateText(tasks[i], newText, clock)]
    /\ \A op \in {"addTask", "toggleTask", "deleteTask"} :
          (last.op = op /\ last.save = "failed") =>
              /\ last.result \notin {Null, Bool(FALSE)}
              /\ op # "deleteTask" => \E i \in 1..Len(tasks) : tasks[i] = last.result

\* A task was added while the storage rejects every write: the save failed and
\* the task is the last of the collection.
C12_Witness ==
    /\ last.op = "addTask"
    /\ last.save = "failed"
    /\ storage = "full"
    /\ Len(tasks) = 2
    /\ tasks[2] = last.result

\* C13: in every reachable state the text of every task in the store is a
\* string that equals its own trim and has between 1 and 500 characters.
C13_TextInvariant ==
    \A i \in 1..Len(tasks) :
        /\ tasks[i].text.kind = "string"
        /\ trim(tasks[i].text.chars) = tasks[i].text.chars
        /\ Len(tasks[i].text.chars) \in 1..500

\* C14: in every reachable state no two tasks of the collection have the same id.
C14_UniqueIds ==
    \A i, j \in 1..Len(tasks) : i # j => tasks[i].id # tasks[j].id

\* C15: edit(id, newText) with an id that is not in the store, or with a newText
\* that is empty, white space only or longer than 500 characters once trimmed,
\* returns null and leaves every task and the slot as they were.
C15_EditRejects ==
    \A id \in IdArgs(tasks), newText \in TextArgs, clock \in Clock(1) :
        (find(tasks, id) = 0 \/ ~Acceptable(newText)) =>
            LET done == editTask(tasks, id, newText, clock)
            IN  /\ done.result = Null
                /\ done.tasks = tasks
                /\ done.slot = slot
                /\ done.save = "none"

\* edit has returned null in a store that holds tasks and whose slot is written.
C15_Witness ==
    /\ last.op = "editTask"
    /\ last.result = Null
    /\ Len(tasks) = 2
    /\ storage = "ok"
    /\ HoldsRecord(slot, tasks, currentFilter)

\* The stored value is a record whose i-th task has the text given
HoldsText(stored, i, text) ==
    /\ JSONparse(stored).ok
    /\ isArray(Get(JSONparse(stored).value, "tasks"))
    /\ i <= Len(Get(JSONparse(stored).value, "tasks").items)
    /\ Get(Get(JSONparse(stored).value, "tasks").items[i], "text") = text

\* C16, as stated: immediately after a successful edit(id, newText) the
\* persisted record still holds the previous text of the task, also when the
\* edit follows another edit of the task.
C16_SlotHoldsPreviousText ==
    storage = "ok" =>
        \A id \in IdArgs(tasks), text \in TextArgs, newText \in TextArgs,
           clock \in Clock(2) :
            (find(tasks, id) # 0 /\ Acceptable(text) /\ Acceptable(newText)) =>
                LET i == find(tasks, id)
                    T == editTask(tasks, id, text, clock).tasks
                IN  HoldsText(editTask(T, id, newText, After(clock, 1)).slot, i, T[i].text)

\* C16, amended: a successful edit(id, newText) sets the text of the task to
\* trim(newText), changes no field of another task and no completed flag, and
\* neither writes the slot nor renders: the slot holds after it what it held
\* before, so a record that held the previous text of the task still holds it.
C16_EditFrame ==
    \A id \in IdArgs(tasks), newText \in TextArgs, clock \in Clock(1) :
        (find(tasks, id) # 0 /\ Acceptable(newText)) =>
            LET i == find(tasks, id)
                done == editTask(tasks, id, newText, clock)
            IN  /\ done.result # Null
                /\ done.result = done.tasks[i]
                /\ done.tasks[i].text = Str(trim(newText.chars))
                /\ Len(done.tasks) = Len(tasks)
                /\ \A j \in 1..Len(tasks) :
                      /\ j # i => done.tasks[j] = tasks[j]
                      /\ done.tasks[j].completed = tasks[j].completed
                /\ done.slot = slot
                /\ done.save = "none"
                /\ ~done.render
                /\ HoldsText(slot, i, tasks[i].text) =>
                      HoldsText(done.slot, i, tasks[i].text)

\* A task loaded with a blank text was edited: it has the new text, and the
\* record in the slot still has the blank one.
C16_Witness ==
    /\ last.op = "editTask"
    /\ last.result # Null
    /\ storage = "ok"
    /\ tasks[1] = last.result
    /\ tasks[1].text = Str(ShortText)
    /\ HoldsText(slot, 1, Str(<<" ">>))

\* C17: toggle(id) for an id that is not in the store returns null, changes no
\* task, does not write the slot and does not render.
C17_ToggleAbsent ==
    \A id \in IdArgs(tasks), clock \in Clock(2) :
        find(tasks, id) = 0 =>
            LET done == toggleTask(tasks, id, clock)
            IN  /\ done.result = Null
                /\ done.tasks = tasks
                /\ done.slot = slot
                /\ done.save = "none"
                /\ ~done.render

\* toggle has returned null in a store that holds tasks.
C17_Witness ==
    /\ last.op = "toggleTask"
    /\ last.result = Null
    /\ last.save = "none"
    /\ ~last.render
    /\ Len(tasks) = 2
    /\ storage = "ok"

\* The positions of the tasks of ts that the filter selects
Selected(ts, filter) ==
    { i \in 1..Len(ts) :
        CASE filter = FilterActive -> ts[i].completed # Bool(TRUE)
          [] filter = FilterCompleted -> ts[i].completed = Bool(TRUE)
          [] OTHER -> TRUE }

\* C18: for every store state and every filter value, list(filter) is the
\* sequence of the tasks the filter selects, in the order they have in the
\* collection; every filter value other than "active" and "completed" selects
\* all tasks.
C18_ListInOrder ==
    \A filter \in FilterArgs :
        LET listed == getFilteredTasks(tasks, filter)
            positions == Selected(tasks, filter)
        IN  /\ Len(listed) = Cardinality(positions)
            /\ \A i \in positions :
                  listed[Cardinality({j \in positions : j <= i})] = tasks[i]
            /\ filter \notin {FilterActive, FilterCompleted} => listed = tasks

\* A store with an active and a completed task under a filter name that is none
\* of the three: all tasks are listed.
C18_Witness ==
    /\ todoApp = "TaskList"
    /\ currentFilter \notin FilterButtons
    /\ Len(tasks) = 2
    /\ tasks[1] # tasks[2]
    /\ getFilteredTasks(tasks, currentFilter) = tasks
    /\ Len(getFilteredTasks(tasks, FilterActive)) = 1
    /\ Len(getFilteredTasks(tasks, FilterCompleted)) = 1

\* C19: nothing the caller does to the array getAllTasks() returned -- adding or
\* removing elements, or changing fields of the listed tasks -- changes the
\* store's collection.
C19_ListIsACopy == [][last'.op \in CallerOps => tasks' = tasks]_vars

\* The number of the tasks of ts that are completed
Completed(ts) == Len(getFilteredTasks(ts, FilterCompleted))

\* C20: a confirmed clearCompleted removes every completed task and no other:
\* afterwards list("completed") is empty and list("active") is the sequence it
\* was; each removal has its own save and render, so k completed tasks make
\* exactly k saves.  If the user declines, or no task is completed, the
\* collection and the slot are unchanged.
C20_ClearCompleted ==
    \A clock \in Clock(Len(tasks)) :
    /\ LET done == handleClearCompleted(tasks, TRUE, clock)
       IN  /\ getFilteredTasks(done.tasks, FilterCompleted) = <<>>
           /\ getFilteredTasks(done.tasks, FilterActive) = getFilteredTasks(tasks, FilterActive)
           /\ done.tasks = getFilteredTasks(tasks, FilterActive)
           /\ done.saves = Completed(tasks)
           /\ done.renders = Completed(tasks)
           /\ Completed(tasks) = 0 => done.slot = slot
    /\ LET done == handleClearCompleted(tasks, FALSE, clock)
       IN  /\ done.tasks = tasks
           /\ done.slot = slot
           /\ done.saves = 0

\* The same statement for the stores whose tasks have distinct ids
C20_ClearCompletedDistinctIds ==
    C14_UniqueIds => C20_ClearCompleted

\* The array itself is the caller's own: pushing to it and popping from it
\* leave the store's collection as it is.
C19_ArrayIsNew == [][last'.op \in {"list.push", "list.pop"} => tasks' = tasks]_vars

\* The filter name the stored value holds, undefined when it holds none
PersistedFilter(stored) ==
    Get(Get(JSONparse(stored).value, "settings"), "currentFilter")

\* C21: after every user action that changes the active filter -- a click on a
\* filter button or one of the keys 1, 2, 3 -- the list has been rendered and,
\* when the storage works, the persisted filter equals the active filter.
C21_FilterRepersisted ==
    (/\ todoApp = "TaskList"
     /\ \/ last.op = "handleFilterClick"
        \/ last.op = "handleKeyboardShortcuts" /\ last.render)
    => /\ last.render
       /\ view = renderTasks(tasks, currentFilter, view)
       /\ storage = "ok" => PersistedFilter(slot) = currentFilter

\* The same statement for the clicks on the filter buttons alone
C21_ClickRepersists ==
    (todoApp = "TaskList" /\ last.op = "handleFilterClick")
    => /\ last.render
       /\ view = renderTasks(tasks, currentFilter, view)
       /\ storage = "ok" => PersistedFilter(slot) = currentFilter

\* C22: every failed operation is shown to the user: after a user action whose
\* add, edit, toggle or delete failed (invalid text, id not found) a message is
\* on the page, and after a user action one of whose saves failed a warning
\* message is on the page.
C22_FailuresShown ==
    /\ last.save = "failed" => message.type = "warning"
    /\ (/\ last.op \in {"handleAddTask", "saveTaskEdit", "handleTaskListClick",
                        "handleTaskListChange"}
        /\ ~last.render)
       => message.type \in {"error", "warning"}

\* The failures that are shown: a text that is still invalid once the handler
\* has trimmed it and found it not empty, and an edit confirmed with a text
\* that is empty or invalid
C22_RejectedTextShown ==
    /\ (last.op = "saveTaskEdit" /\ ~last.render) => message.type \in {"error", "warning"}
    /\ \A value \in InputValues :
          (Truthy(trimmed(value)) /\ ~isValidText(trimmed(value)))
          => \A clock \in Standstill(4) :
                addTask(tasks, trimmed(value), FirstSuffix, clock).result = Null

\* The ids of the tasks the stored value holds
PersistedIds(stored) ==
    LET list == Get(JSONparse(stored).value, "tasks")
    IN  IF isArray(list) THEN { Get(list.items[i], "id") : i \in 1..Len(list.items) } ELSE {}

\* C23: with two tabs on one slot, their handlers interleaving, a successful
\* save overwrites the whole record: after it the slot holds exactly the tasks
\* and the filter of the tab that saved, whatever the other tab wrote before;
\* and the slot, once written, holds the state of the tab that wrote last.
C23_LastWriterWins ==
    storage = "ok" =>
        /\ last.save = "ok" => HoldsRecord(slot, tasks, currentFilter)
        /\ \/ slot = Null
           \/ HoldsRecord(slot, tasks, currentFilter)
           \/ HoldsRecord(slot, otherTab.tasks, otherTab.currentFilter)

\* A tab has saved while the other tab holds a task that it wrote to the slot
\* before and that this tab never loaded: the slot holds this tab's tasks only.
C23_Witness ==
    /\ last.save = "ok"
    /\ tasks # <<>>
    /\ otherTab.todoApp = "TaskList"
    /\ otherTab.tasks # <<>>
    /\ \A i \in 1..Len(otherTab.tasks) :
          /\ otherTab.tasks[i].id \notin PersistedIds(slot)
          /\ \A j \in 1..Len(tasks) : tasks[j].id # otherTab.tasks[i].id

\* The sequence s is the beginning of the sequence t
IsPrefix(s, t) == Len(s) <= Len(t) /\ s = SubSeq(t, 1, Len(s))

\* C24: an add, a toggle or a delete that changes the collection mutates, then
\* saves, then renders, within one handler that runs to its end before another
\* event is handled; the page it has rendered shows the collection the save
\* wrote.
C24_MutateSaveRender ==
    /\ [](pc.op \in {"addTask", "deleteTask", "toggleTask"} =>
            /\ IsPrefix(pc.done, <<"mutate", "saveToStorage", "renderTasks">>)
            /\ (pc.running <=> Len(pc.done) \in {1, 2})
            /\ (~pc.running /\ pc.done # <<>>) =>
                  /\ view = renderTasks(tasks, currentFilter, view)
                  /\ storage = "ok" => HoldsRecord(slot, tasks, currentFilter))
    /\ [][(pc.running /\ pc.op \in {"addTask", "deleteTask", "toggleTask"}) =>
            /\ pc' # pc => pc'.op = pc.op /\ Len(pc'.done) = Len(pc.done) + 1
            /\ tasks' = tasks]_vars

\* A toggle has run to its end with working storage: it has saved and rendered.
C24_Witness ==
    /\ pc = Handler("toggleTask", <<"mutate", "saveToStorage", "renderTasks">>, FALSE)
    /\ last.save = "ok" /\ last.render
    /\ Len(tasks) = 2

\* C25: at startup the load is attempted once and is over before the handlers
\* are installed and before the first render; whatever the load gave, the
\* handlers are then installed and the list is rendered, with no task when the
\* load failed or found nothing.
C25_StartupOrder ==
    pc.op = "DOMContentLoaded" =>
        /\ IsPrefix(pc.done, <<"new TaskList", "loadFromStorage",
                               "setupEventHandlers", "renderTasks">>)
        /\ (pc.running <=> Len(pc.done) < 4)
        /\ handlers => Len(pc.done) >= 3
        /\ Len(pc.done) < 4 => view.items = <<>> /\ view.counter = <<>>
        /\ pc.running => ENABLED (loadStep \/ setupStep \/ renderStep)
        /\ ~pc.running =>
              /\ handlers
              /\ view = renderTasks(tasks, currentFilter, view)
              /\ (last.result = Bool(FALSE) \/ ~Truthy(slot)) =>
                    tasks = <<>> /\ view.items = <<>>

\* The startup is over after a load that failed on a stored value that is not
\* JSON: the handlers are installed and the empty list is rendered.
C25_Witness ==
    /\ pc = Handler("DOMContentLoaded", StartupSteps, FALSE)
    /\ last.result = Bool(FALSE)
    /\ storage = "ok"
    /\ handlers
    /\ view.empty # ""

\* C26: in every reachable state the active filter is one of 'all', 'active'
\* and 'completed', whatever the slot held when the page was loaded and
\* whatever filter buttons and keys were used.
C26_FilterIsKnown ==
    currentFilter \in {FilterAll, FilterActive, FilterCompleted}

\* Only the load of the page takes the filter out of the three names
C26_OnlyLoadBreaksFilter ==
    [][(C26_FilterIsKnown /\ last'.op # "DOMContentLoaded") => C26_FilterIsKnown']_vars


\* Some task of the collection is in it no more after the step
\* (tasks are told apart by their ids).
TaskLeaves ==
    \E i \in 1..Len(tasks) : \A j \in 1..Len(tasks') : tasks'[j].id # tasks[i].id

\* C27: tasks leave the in-memory collection only through delete, called
\* directly, by the delete button's handler or by handleClearCompleted: no call
\* of add, toggle, edit, list, save, render, a filter change, a timer or load
\* removes a task that is in the collection.  (Loading the page creates a new, empty store: the collection of
\* the page before it is not this store's.)
C27_OnlyDeleteRemoves ==
    [][TaskLeaves =>
         last'.op \in {"deleteTask", "handleTaskListClick", "handleClearCompleted",
                       "DOMContentLoaded"}]_vars

\* C27, the same for every operation but loadFromStorage called on the
\* running store and the assignment the persistence test makes before it.
C27_OnlyDeleteOrLoadRemoves ==
    [][TaskLeaves =>
         last'.op \in {"deleteTask", "handleTaskListClick", "handleClearCompleted",
                       "DOMContentLoaded", "loadFromStorage",
                       "testLocalStoragePersistence"}]_vars


\* The k-th displayed item is in edit mode before and after the step
StaysInEditMode(k) ==
    /\ k \in 1..Len(view.items) /\ view.items[k].editing
    /\ k \in 1..Len(view'.items) /\ view'.items[k].editing

\* C28: cancelling an edit never calls edit.  Entering edit mode leaves the
\* collection and the slot as they are, and so does every step that leaves an
\* item in edit mode leave the collection; cancelTaskEdit leaves every task
\* (its text and updatedAt) and the slot as they are, sets editingTaskId to
\* null and renders the list again; saveTaskEdit with a text that is empty
\* after trimming leaves every task, the page and editingTaskId as they are,
\* and a confirmation none of whose calls of saveTaskEdit has edited leaves
\* every task and the slot as they are.
C28_CancelLeavesTask ==
    /\ [](\A id \in IdArgs(tasks), value \in InputValues, clock \in Clock(1) :
            ~Truthy(trimmed(value)) =>
                LET saved == saveTaskEdit(App, id, trimmed(value), clock)
                IN  /\ saved.tasks = tasks
                    /\ saved.view = view
                    /\ saved.editingTaskId = editingTaskId
                    /\ saved.renders = 0)
    /\ [][/\ last'.op = "handleEditTask" => tasks' = tasks /\ slot' = slot
          /\ (\E k \in 1..MaxTasks : StaysInEditMode(k)) => tasks' = tasks
          /\ last'.op = "cancelTaskEdit" =>
                /\ tasks' = tasks
                /\ slot' = slot
                /\ editingTaskId' = Null
                /\ last'.render
                /\ view' = renderTasks(tasks, currentFilter, view)
                /\ \A k \in 1..Len(view'.items) : ~view'.items[k].editing
          /\ (last'.op = "saveTaskEdit" /\ ~last'.render) =>
                /\ tasks' = tasks
                /\ slot' = slot]_vars

\* C28: an edit has been cancelled after the clock had moved on: every task
\* has a text editTask would take and the time stamp of an earlier millisecond
C28_Witness ==
    /\ last.op = "cancelTaskEdit"
    /\ tasks # <<>>
    /\ now > 0
    /\ \A i \in 1..Len(tasks) :
          /\ isValidText(tasks[i].text)
          /\ tasks[i].updatedAt = toISOString(0)
    /\ editingTaskId = Null

\* C28: an empty text has been confirmed and the task is still being edited
C28_EmptyConfirmed ==
    /\ last.op = "saveTaskEdit"
    /\ message = showMessage("Task text cannot be empty", "warning")
    /\ editingTaskId # Null
    /\ \E k \in 1..Len(view.items) : view.items[k].editing


\* The count the piece of text after a displayed number names: 0 for the total,
\* 1 for the active and 2 for the completed tasks
CountNamed(piece) ==
    CASE piece.text \in {" task", " tasks"} -> 0
      [] piece.text \in {" active task", " active tasks", " active, ", " remaining)"} -> 1
      [] piece.text \in {" completed task", " completed tasks", " completed)"} -> 2

\* The three counts of the collection ts, in that order
Counts(ts) ==
    <<Len(ts),
      Cardinality({ i \in 1..Len(ts) : ~Truthy(ts[i].completed) }),
      Cardinality({ i \in 1..Len(ts) : Truthy(ts[i].completed) })>>

\* C29: the view is a function of (tasks, filter).  Once the page has been
\* loaded, after every user action the displayed items are the tasks of
\* getFilteredTasks(currentFilter), in the order of the collection, each with
\* its id, its text and its completed state, and every number the counter
\* shows is the count of the collection that the text after it names.
C29_ViewIsFunction ==
    todoApp = "TaskList" =>
        LET shown == getFilteredTasks(tasks, currentFilter)
        IN  /\ Len(view.items) = Len(shown)
            /\ \A k \in 1..Len(shown) :
                 /\ view.items[k].id = shown[k].id
                 /\ view.items[k].text = shown[k].text
                 /\ view.items[k].checked = Truthy(shown[k].completed)
            /\ (view.empty # "") <=> (Len(shown) = 0)
            /\ view.counter # <<>>
            /\ \A p \in 1..(Len(view.counter) - 1) :
                 view.counter[p].kind = "number" =>
                     view.counter[p].num = Counts(tasks)[CountNamed(view.counter[p + 1]) + 1]

\* C29: a task has been completed at the page while the filter was 'active':
\* the collection has two tasks, the page shows one
C29_Witness ==
    /\ last.op = "handleTaskListChange"
    /\ currentFilter = FilterActive
    /\ Len(tasks) = 2
    /\ Len(view.items) = 1
    /\ \E p \in 1..Len(view.counter) : view.counter[p] = Num(1)


\* The task list a load of the page gets from the stored value
Reloaded(stored) == loadFromStorage(<<>>, FilterAll, stored).tasks

\* C30: reload equivalence.  With working storage the page load makes the
\* stored tasks and the tasks in memory equal, and every completed user action
\* (add, toggle, delete, confirmed edit, filter click, clear completed) keeps
\* them equal: a load of the page after it would restore the list in memory.
C30_ReloadEquivalence ==
    [][storage = "ok" =>
         /\ last'.op = "DOMContentLoaded" => Reloaded(slot') = tasks'
         /\ (/\ Reloaded(slot) = tasks
             /\ last'.op \in {"handleAddTask", "handleTaskListClick", "handleTaskListChange",
                              "saveTaskEdit", "handleFilterClick", "handleClearCompleted"})
            => Reloaded(slot') = tasks']_vars

\* C30, the same for every handler of the page but saveTaskEdit
C30_ReloadEquivalenceButEdit ==
    [][storage = "ok" =>
         /\ last'.op = "DOMContentLoaded" => Reloaded(slot') = tasks'
         /\ (/\ Reloaded(slot) = tasks
             /\ last'.op \in {"handleAddTask", "handleTaskListClick", "handleTaskListChange",
                              "handleFilterClick", "handleClearCompleted", "handleEditTask",
                              "cancelTaskEdit", "handleKeyboardShortcuts", "setTimeout"})
            => Reloaded(slot') = tasks']_vars


\* A stored record whose second task is null, after a task of the old form, and
\* a record whose only task is a text; both name the filter 'active'
NullAfterTask ==
    JSONText(Obj([tasks |-> Arr(<<Obj([id |-> OldId, text |-> Str(<<"q">>)]), Null>>),
                  settings |-> Obj([currentFilter |-> FilterActive])]))
TextElement ==
    JSONText(Obj([tasks |-> Arr(<<Str(<<"q">>)>>),
                  settings |-> Obj([currentFilter |-> FilterActive])]))

\* The values loadFromStorage may find under the key: none, the samples, what
\* the slot holds, and what a save of the collection would write
LoadArgs ==
    StoredSamples \cup {Null, slot, NullAfterTask, TextElement,
                        JSONstringify(dataToSave(tasks, currentFilter, <<now>>))}

\* C31: load is all-or-nothing for the collection.  Whatever the store holds
\* and whatever is stored, either the load returns true having found a stored
\* value, and the collection is then the stored tasks, in the stored order,
\* each with the five fields as stored; or it returns false, or finds no stored
\* value, and the collection and the active filter are as before the call.
C31_LoadAllOrNothing ==
    \A storedData \in LoadArgs :
        LET loaded == loadFromStorage(tasks, currentFilter, storedData)
            items == Get(JSONparse(storedData).value, "tasks").items
        IN  IF loaded.result /\ Truthy(storedData)
            THEN /\ storage # "unavailable"
                 /\ Len(loaded.tasks) = Len(items)
                 /\ \A i \in 1..Len(items), f \in TaskFields :
                       loaded.tasks[i][f] = Get(items[i], f)
            ELSE /\ loaded.tasks = tasks
                 /\ loaded.currentFilter = currentFilter

\* C31: a store has loaded the record it had saved, and holds a task and a
\* filter other than the stored ones of two records it may load next: one with
\* a null element after a task, which fails, and one of two tasks, which
\* succeeds
C31_Witness ==
    /\ last.op = "loadFromStorage"
    /\ last.result = Bool(TRUE)
    /\ storage # "unavailable"
    /\ Len(tasks) = 1
    /\ currentFilter = FilterCompleted
    /\ ~loadFromStorage(tasks, currentFilter, NullAfterTask).result
    /\ loadFromStorage(tasks, currentFilter, LegacyRecord).result
    /\ Len(loadFromStorage(tasks, currentFilter, LegacyRecord).tasks) = 2


\* C32: in every reachable state editingTaskId is null or the id of a task of
\* the store whose displayed item is in edit mode, whatever the user did after
\* entering edit mode (toggle, delete, filter change, clear completed).
C32_EditingIdIsShown ==
    \/ editingTaskId = Null
    \/ /\ \E i \in 1..Len(tasks) : tasks[i].id = editingTaskId
       /\ \E k \in 1..Len(view.items) :
             view.items[k].id = editingTaskId /\ view.items[k].editing

\* C32, the other way round: an item displayed in edit mode is the item of a
\* task of the store, and editingTaskId is the id of such an item
C32_ShownIsEditingId ==
    (\E k \in 1..Len(view.items) : view.items[k].editing) =>
        /\ editingTaskId # Null
        /\ \E k \in 1..Len(view.items) :
             view.items[k].id = editingTaskId /\ view.items[k].editing
        /\ \A k \in 1..Len(view.items) :
             view.items[k].editing => \E i \in 1..Len(tasks) : tasks[i].id = view.items[k].id


\* The element messageElement is on the page
Displayed(messageElement) ==
    \E i \in 1..Len(userMessages) : userMessages[i].serial = messageElement

\* C33: at most one message is displayed at any time, and it is the message
\* the user sees, with its own timer pending; a timer's callback removes no
\* element but the one it was set for, so never a later message, and changes
\* neither tasks, filter, slot nor the list on the page; and every message
\* displayed is removed at some later time, by a newer message, by its own
\* timer or by a load of the page.
C33_OneMessage ==
    /\ [](/\ Len(userMessages) <= 1
          /\ message = firstMessage(userMessages)
          /\ \A i \in 1..Len(userMessages) : userMessages[i].serial \in timers)
    /\ [][last'.op = "setTimeout" =>
            /\ tasks' = tasks /\ currentFilter' = currentFilter /\ slot' = slot
            /\ view' = view /\ editingTaskId' = editingTaskId
            /\ \A i \in 1..Len(userMessages) :
                 \/ \E j \in 1..Len(userMessages') : userMessages'[j] = userMessages[i]
                 \/ userMessages[i].serial \in timers \ timers']_vars
    /\ \A messageElement \in 1..MaxTimers :
          Displayed(messageElement) ~> ~Displayed(messageElement)

\* C33: the timer of an earlier message has expired while a later message, whose
\* own timer is pending, is displayed: the later message is still there
C33_Witness ==
    /\ last.op = "setTimeout"
    /\ userMessages # <<>>
    /\ Head(userMessages).serial \in timers
    /\ message.type = "success"
    /\ tasks # <<>>

====
